---- MODULE Spec2Model ----
(***************************************************************************)
(* A model of the StratoVirt core: the x86_64 standard machine's lifecycle *)
(* (machine/src/standard_vm/x86_64/mod.rs) and the virtio-scsi command     *)
(* engine (virtio/src/scsi/bus.rs).                                        *)
(*                                                                         *)
(* Each subsystem has its own specification over the one set of variables; *)
(* the variables of the other subsystems stay at their initial values.     *)
(***************************************************************************)
EXTENDS Integers, Sequences, FiniteSets, TLC

\* ------------------------------------------------------------------ bounds

\* Number of lifecycle calls (run / pause / resume / destroy) in one behaviour.
MaxCalls == 5

\* Number of requests the queue handler takes from one virtqueue.
MaxReqs == 4

\* The number of pio_in / pio_out calls followed.
MaxPio == 3

VARIABLES
    vm_state,       \* StdMachine.vm_state: the KvmVmState under the mutex
    events,         \* the lifecycle events emitted by event!(..), in order
    power_button,   \* the counter of the power_button eventfd
    calls,          \* history: the calls made so far, each with its result
    overflow_checks,\* the build: TRUE when integer overflow panics (debug)
    devices,        \* ScsiBus.devices: (target, lun) -> ScsiDevice
    dev_iter,       \* the order in which the HashMap iterates over its keys
    vreq,           \* the VirtioScsiRequest being handled (cdb, lun, iovec, resp)
    sreq,           \* the ScsiRequest built from it by ScsiRequest::new
    pc,             \* the queue handler's position for this request
    aio,            \* the queue's Aio: submissions, host completions, deliveries
    used_ring,      \* the virtqueue's used ring: tags of the completed requests
    mem_size,       \* the mem_size given to arch_ram_ranges (u64, 8 bytes)
    ranges,         \* the Vec<(u64, u64)> that arch_ram_ranges returned
    sys_io,         \* StdMachine.sys_io: the byte behind each mapped port
    pio_calls,      \* history: the pio_in / pio_out calls, each with its result
    realize,        \* StdMachine::realize: the configuration, the steps done, the outcome
    drives,         \* VmConfig.drives: drive id -> DriveConfig
    config_calls,   \* history: the calls on the drives, each with its result
    threads,        \* the threads calling destroy, pause or resume: each one's call, position and result
    workers,        \* the queue workers running REPORT_LUNS: each one's device, command and position
    locks           \* the holder of the bus mutex and of each device's mutex (0: free)

lifeVars == <<vm_state, events, power_button, calls>>

ramVars == <<mem_size, ranges>>

scsiVars == <<overflow_checks, devices, dev_iter, vreq, sreq, pc, aio, used_ring>>

vars == <<vm_state, events, power_button, calls,
          overflow_checks, devices, dev_iter, vreq, sreq, pc, aio, used_ring,
          mem_size, ranges,
          sys_io, pio_calls, realize,
          drives, config_calls,
          threads,
          workers, locks>>

\* The variables of the parts modelled further down.
restVars == <<sys_io, pio_calls, realize, drives, config_calls, threads, workers, locks>>

\* Everything but the port space.
frame_pio == <<lifeVars, scsiVars, ramVars, realize, drives, config_calls, threads, workers, locks>>

\* Everything but realize.
frame_realize == <<lifeVars, scsiVars, ramVars, sys_io, pio_calls, drives, config_calls, threads, workers, locks>>

\* Everything but the drive configuration.
frame_drive == <<lifeVars, scsiVars, ramVars, sys_io, pio_calls, realize, threads, workers, locks>>

\* Everything but the lifecycle threads and the machine they act on.
frame_threads == <<calls, scsiVars, ramVars, sys_io, pio_calls, realize, drives, config_calls, workers, locks>>

\* Everything but the queue workers and the mutexes.
frame_locks == <<lifeVars, scsiVars, ramVars, sys_io, pio_calls, realize, drives, config_calls, threads>>

\* ------------------------------------------------------- lifecycle: data

KvmVmState == {"Created", "Running", "Paused", "Shutdown"}

\* ------------------------------------------- lifecycle: MachineOps helpers

\* MachineOps::vm_start(paused, cpus, vm_state): starts the vCPUs and moves a
\* Created machine to Running (paused = FALSE) or Paused (paused = TRUE).
vm_start(paused, st) ==
    IF st = "Created"
    THEN [ok |-> TRUE, state |-> IF paused THEN "Paused" ELSE "Running"]
    ELSE [ok |-> FALSE, state |-> st]

\* MachineOps::vm_state_transfer(cpus, vm_state, old, new): validates that the
\* machine is in `old`, then performs the edge old -> new of the lifecycle
\* graph; any other pair is refused.
vm_state_transfer(st, old, new) ==
    IF st # old
    THEN [ok |-> FALSE, state |-> st]
    ELSE IF \/ <<old, new>> \in {<<"Created", "Running">>,
                                 <<"Running", "Paused">>,
                                 <<"Paused", "Running">>}
            \/ new = "Shutdown"
         THEN [ok |-> TRUE, state |-> new]
         ELSE [ok |-> FALSE, state |-> st]

\* ------------------------------------------- lifecycle: StdMachine methods

\* A plausible slip: the two states handed over in the wrong order.
notify_lifecycle_swapped(st, old, new) == vm_state_transfer(st, new, old)

\* StdMachine::notify_lifecycle(old, new): locks vm_state and transfers.
notify_lifecycle(st, old, new) == vm_state_transfer(st, old, new)

\* StdMachine::run(paused): vm_start under the vm_state lock.
run_result(paused, st) ==
    LET r == vm_start(paused, st)
    IN  [ret |-> r.ok, state |-> r.state, ev |-> <<>>, btn |-> 0]

\* A plausible slip: STOP emitted before the transition is validated.
pause_result_always_emits(st) ==
    LET r == notify_lifecycle(st, "Running", "Paused")
    IN  [ret |-> r.ok, state |-> r.state, ev |-> <<"STOP">>, btn |-> 0]

\* StdMachine::pause(): Running -> Paused, then event!(STOP).
pause_result(st) ==
    LET r == notify_lifecycle(st, "Running", "Paused")
    IN  IF r.ok
        THEN [ret |-> TRUE, state |-> r.state, ev |-> <<"STOP">>, btn |-> 0]
        ELSE [ret |-> FALSE, state |-> r.state, ev |-> <<>>, btn |-> 0]

\* A plausible slip: resume emits STOP, the event of pause.
resume_result_wrong_event(st) ==
    LET r == notify_lifecycle(st, "Paused", "Running")
    IN  IF ~r.ok
        THEN [ret |-> FALSE, state |-> r.state, ev |-> <<>>, btn |-> 0]
        ELSE [ret |-> TRUE, state |-> r.state, ev |-> <<"STOP">>, btn |-> 0]

\* StdMachine::resume(): Paused -> Running, then event!(RESUME).
resume_result(st) ==
    LET r == notify_lifecycle(st, "Paused", "Running")
    IN  IF ~r.ok
        THEN [ret |-> FALSE, state |-> r.state, ev |-> <<>>, btn |-> 0]
        ELSE [ret |-> TRUE, state |-> r.state, ev |-> <<"RESUME">>, btn |-> 0]

\* A plausible slip: the source state fixed to Running instead of read.
destroy_result_from_running(st) ==
    LET vmstate == "Running"
        r == notify_lifecycle(st, vmstate, "Shutdown")
    IN  IF ~r.ok
        THEN [ret |-> FALSE, state |-> r.state, ev |-> <<>>, btn |-> 0]
        ELSE [ret |-> TRUE, state |-> r.state, ev |-> <<>>, btn |-> 1]

\* StdMachine::destroy(), one caller at a time: reads the state, transfers
\* from it to Shutdown and writes 1 to the power button.
destroy_result(st) ==
    LET vmstate == st
        r == notify_lifecycle(st, vmstate, "Shutdown")
    IN  IF ~r.ok
        THEN [ret |-> FALSE, state |-> r.state, ev |-> <<>>, btn |-> 0]
        ELSE [ret |-> TRUE, state |-> r.state, ev |-> <<>>, btn |-> 1]

\* EventLoopManager::loop_should_exit()
loop_should_exit == vm_state = "Shutdown"

\* --------------------------------------------------- lifecycle: actions

\* The effect of one call on the machine, recorded in the history.
Apply(op, paused, r) ==
    /\ Len(calls) < MaxCalls
    /\ vm_state' = r.state
    /\ events' = events \o r.ev
    /\ power_button' = power_button + r.btn
    /\ calls' = Append(calls, [op |-> op, paused |-> paused, ret |-> r.ret,
                               from |-> vm_state, to |-> r.state,
                               ev |-> r.ev, btn |-> r.btn])
    /\ UNCHANGED scsiVars
    /\ UNCHANGED <<ramVars, restVars>>

run == \E paused \in BOOLEAN : Apply("run", paused, run_result(paused, vm_state))

pause == Apply("pause", FALSE, pause_result(vm_state))

resume == Apply("resume", FALSE, resume_result(vm_state))

destroy == Apply("destroy", FALSE, destroy_result(vm_state))

\* StdMachine::new: the state after construction.
LifeInit ==
    /\ vm_state = "Created"
    /\ events = <<>>
    /\ power_button = 0
    /\ calls = <<>>

\* No SCSI bus and no request: the engine's variables when it is not modelled.
\* An Aio with nothing submitted: the requests submitted (their tags, in
\* submission order), the submission indices the host is working on, those
\* the host has finished but that are not yet delivered, the number
\* delivered, and (history) the order in which the host finished.
AioEmpty ==
    [submitted |-> <<>>, inflight |-> {}, reorder |-> {}, delivered |-> 0,
     finished |-> <<>>]

ScsiIdle ==
    /\ aio = AioEmpty
    /\ used_ring = <<>>
    /\ overflow_checks = FALSE
    /\ devices = <<>>
    /\ dev_iter = <<>>
    /\ vreq = <<>>
    /\ sreq = <<>>
    /\ pc = "idle"

\* arch_ram_ranges has not been called.
RamIdle ==
    /\ mem_size = <<>>
    /\ ranges = <<>>

\* The parts modelled further down are not running.
RestIdle ==
    /\ sys_io = <<>>
    /\ pio_calls = <<>>
    /\ realize = <<>>
    /\ drives = <<>>
    /\ config_calls = <<>>
    /\ threads = <<>>
    /\ workers = <<>>
    /\ locks = <<>>

\* Only the port space is running.
Idle_pio == LifeInit /\ ScsiIdle /\ RamIdle /\ realize = <<>> /\ drives = <<>> /\ config_calls = <<>> /\ threads = <<>> /\ workers = <<>> /\ locks = <<>>

Idle_realize == LifeInit /\ ScsiIdle /\ RamIdle /\ sys_io = <<>> /\ pio_calls = <<>> /\ drives = <<>> /\ config_calls = <<>> /\ threads = <<>> /\ workers = <<>> /\ locks = <<>>

Idle_drive == LifeInit /\ ScsiIdle /\ RamIdle /\ sys_io = <<>> /\ pio_calls = <<>> /\ realize = <<>> /\ threads = <<>> /\ workers = <<>> /\ locks = <<>>

Idle_threads == calls = <<>> /\ ScsiIdle /\ RamIdle /\ sys_io = <<>> /\ pio_calls = <<>> /\ realize = <<>> /\ drives = <<>> /\ config_calls = <<>> /\ workers = <<>> /\ locks = <<>>

Idle_locks == LifeInit /\ RamIdle /\ aio = AioEmpty /\ used_ring = <<>> /\ overflow_checks = FALSE /\ vreq = <<>> /\ sreq = <<>> /\ pc = "idle" /\ sys_io = <<>> /\ pio_calls = <<>> /\ realize = <<>> /\ drives = <<>> /\ config_calls = <<>> /\ threads = <<>>

InitLife == LifeInit /\ ScsiIdle /\ RamIdle /\ RestIdle

NextLife ==
    \/ run
    \/ pause
    \/ resume
    \/ destroy

SpecLife == InitLife /\ [][NextLife]_vars

\* ---------------------------------------------------- lifecycle: claims

\* The edges of the lifecycle graph, each with the call that takes it.
LifecycleEdge(op, paused, from, to) ==
    \/ op = "run" /\ ~paused /\ from = "Created" /\ to = "Running"
    \/ op = "run" /\ paused /\ from = "Created" /\ to = "Paused"
    \/ op = "pause" /\ from = "Running" /\ to = "Paused"
    \/ op = "resume" /\ from = "Paused" /\ to = "Running"
    \/ op = "destroy" /\ to = "Shutdown"

CallIdx == 1..Len(calls)

C2_PauseResumeGuarded ==
    \A i \in CallIdx :
        LET c == calls[i]
        IN  /\ (c.op = "pause" /\ c.from # "Running") =>
                   (~c.ret /\ c.to = c.from /\ c.ev = <<>>)
            /\ (c.op = "pause" /\ c.from = "Running") =>
                   (c.ret /\ c.to = "Paused" /\ c.ev = <<"STOP">>)
            /\ (c.op = "resume" /\ c.from # "Paused") =>
                   (~c.ret /\ c.to = c.from /\ c.ev = <<>>)
            /\ (c.op = "resume" /\ c.from = "Paused") =>
                   (c.ret /\ c.to = "Running" /\ c.ev = <<"RESUME">>)

\* C2 witness: a refused and an accepted pause, a refused and an accepted
\* resume.
C2_Witness ==
    /\ \E i \in CallIdx : calls[i].op = "pause" /\ ~calls[i].ret
    /\ \E i \in CallIdx : calls[i].op = "pause" /\ calls[i].ret
    /\ \E i \in CallIdx : calls[i].op = "resume" /\ ~calls[i].ret
    /\ \E i \in CallIdx : calls[i].op = "resume" /\ calls[i].ret

\* C3: destroy returns true from every state, leaves Shutdown and writes 1 to
\* the power button; only a destroy that reached Shutdown writes it, so once
\* it is written loop_should_exit() is true.
C3_DestroyShutsDown ==
    /\ \A i \in CallIdx :
          LET c == calls[i]
          IN  /\ c.op = "destroy" => (c.ret /\ c.to = "Shutdown" /\ c.btn = 1)
              /\ c.btn # 0 => (c.op = "destroy" /\ c.ret /\ c.to = "Shutdown")
    /\ power_button = Cardinality({i \in CallIdx : calls[i].op = "destroy"})
    /\ power_button > 0 => loop_should_exit
    /\ (calls # <<>> /\ calls[Len(calls)].op = "destroy") => loop_should_exit

\* C3 witness: destroy was called on a paused machine and again on the
\* machine it had shut down.
C3_Witness ==
    \E i, j \in CallIdx :
        /\ i < j
        /\ calls[i].op = "destroy" /\ calls[i].from = "Paused"
        /\ calls[j].op = "destroy" /\ calls[j].from = "Shutdown"

RECURSIVE EmittedBy(_)
\* The events the calls of a history announce: STOP per accepted pause,
\* RESUME per accepted resume, in call order.
EmittedBy(cs) ==
    IF cs = <<>> THEN <<>>
    ELSE LET c == Head(cs)
         IN  (IF c.op = "pause" /\ c.ret THEN <<"STOP">>
              ELSE IF c.op = "resume" /\ c.ret THEN <<"RESUME">>
              ELSE <<>>) \o EmittedBy(Tail(cs))

\* The sequence run(paused=false); pause(); resume(); destroy().
IsScenario6 ==
    /\ Len(calls) = 4
    /\ calls[1].op = "run" /\ ~calls[1].paused
    /\ calls[2].op = "pause"
    /\ calls[3].op = "resume"
    /\ calls[4].op = "destroy"

\* C4: the events emitted are one STOP per accepted pause and one RESUME per
\* accepted resume, in call order; run(false); pause; resume; destroy gives
\* [STOP, RESUME], state Shutdown and a power-button counter of 1.
C4_EventsInCallOrder ==
    /\ events = EmittedBy(calls)
    /\ IsScenario6 =>
          /\ events = <<"STOP", "RESUME">>
          /\ vm_state = "Shutdown"
          /\ power_button = 1

\* C4 witness: the scenario has run.
C4_Witness == IsScenario6

\* =================================================== SCSI command engine
\* virtio/src/scsi/bus.rs. A byte is a number in 0..255; a Vec<u8> or array
\* is a sequence (element i of the source is element i+1 here); a CDB is a
\* function on 0..31, indexed as in the source. A u64 / i64 is kept as its
\* eight big-endian bytes, an i32 as an integer.

\* Bit k of byte x (x & (1 << k) != 0).
Bit(x, k) == (x \div (2 ^ k)) % 2 = 1

\* BigEndian::read_u16(&c[i..])
BE16(c, i) == c[i] * 256 + c[i + 1]

\* BigEndian::read_u32(&c[i..]) as i32 (also read_i32): the four bytes as a
\* two's-complement 32-bit integer.
BE32_as_i32(c, i) ==
    (IF c[i] >= 128 THEN c[i] - 256 ELSE c[i]) * 16777216
        + c[i + 1] * 65536 + c[i + 2] * 256 + c[i + 3]

\* The largest and smallest i32 whose product with 512 is an i32.
I32MulMax == 4194303
I32MulMin == -4194304

\* x *= SCSI_DEFAULT_BLOCK_SIZE on an i32: the product, or on overflow a
\* panic (overflow checks on) or the wrapped product (overflow checks off).
mul_block_size(x) ==
    IF x >= I32MulMin /\ x <= I32MulMax
    THEN [panic |-> FALSE, val |-> x * 512]
    ELSE IF overflow_checks
         THEN [panic |-> TRUE, val |-> 0]
         ELSE LET r == x % 8388608
              IN  [panic |-> FALSE,
                   val |-> IF r >= 4194304 THEN (r - 8388608) * 512 ELSE r * 512]

\* The opcodes (cdb[0]) that the engine names more than once.
TEST_UNIT_READY == \h00
REQUEST_SENSE == \h03
INQUIRY == \h12
MODE_SENSE == \h1a
READ_CAPACITY_10 == \h25
SYNCHRONIZE_CACHE == \h35
WRITE_SAME_10 == \h41
MODE_SENSE_10 == \h5a
WRITE_SAME_16 == \h93
SERVICE_ACTION_IN_16 == \h9e
REPORT_LUNS == \ha0

\* READ_6 | READ_10 | READ_12 | READ_16
ReadOps == {\h08, \h28, \ha8, \h88}
\* WRITE_6 | WRITE_10 | WRITE_12 | WRITE_16
WriteOps == {\h0a, \h2a, \haa, \h8a}
\* WRITE_VERIFY_10 | WRITE_VERIFY_12 | WRITE_VERIFY_16
WriteVerifyOps == {\h2e, \hae, \h8e}
\* VERIFY_10 | VERIFY_12 | VERIFY_16
VerifyOps == {\h2f, \haf, \h8f}

\* scsi_cdb_length(cdb): the CDB length of the group code, -1 if it has none.
scsi_cdb_length(cdb) ==
    CASE cdb[0] \div 32 = 0 -> 6
      [] cdb[0] \div 32 \in {1, 2} -> 10
      [] cdb[0] \div 32 = 4 -> 16
      [] cdb[0] \div 32 = 5 -> 12
      [] OTHER -> -1

\* The first match of scsi_cdb_xfer: the transfer length field of the group.
xfer_field(cdb) ==
    CASE cdb[0] \div 32 = 0 -> cdb[4]
      [] cdb[0] \div 32 \in {1, 2} -> BE16(cdb, 7)
      [] cdb[0] \div 32 = 4 -> BE32_as_i32(cdb, 10)
      [] cdb[0] \div 32 = 5 -> BE32_as_i32(cdb, 6)
      [] OTHER -> -1

\* The opcodes of the first arm of scsi_cdb_xfer's second match (xfer = 0):
\* TEST_UNIT_READY REWIND START_STOP SET_CAPACITY WRITE_FILEMARKS
\* WRITE_FILEMARKS_16 SPACE RESERVE RELEASE ERASE ALLOW_MEDIUM_REMOVAL SEEK_10
\* SYNCHRONIZE_CACHE SYNCHRONIZE_CACHE_16 LOCATE_16 LOCK_UNLOCK_CACHE
\* SET_CD_SPEED SET_LIMITS WRITE_LONG_10 UPDATE_BLOCK RESERVE_TRACK
\* SET_READ_AHEAD PRE_FETCH PRE_FETCH_16 ALLOW_OVERWRITE
XferZeroOps ==
    {\h00, \h01, \h1b, \h0b, \h10, \h80, \h11, \h16, \h17, \h19, \h1e, \h2b,
     \h35, \h91, \h92, \h36, \hbb, \h33, \h3f, \h3d, \h53, \ha7, \h34, \h90,
     \h82}

\* scsi_cdb_xfer(cdb): the i32 transfer length, or a panic of its arithmetic.
scsi_cdb_xfer(cdb) ==
    LET xfer == xfer_field(cdb)
        op == cdb[0]
        ok(v) == [panic |-> FALSE, val |-> v]
    IN  CASE op \in XferZeroOps -> ok(0)
          [] op \in VerifyOps ->
                mul_block_size(IF ~Bit(cdb[1], 1) THEN 0
                               ELSE IF Bit(cdb[1], 2) THEN 1
                               ELSE xfer)
          [] op \in {WRITE_SAME_10, WRITE_SAME_16} ->
                ok(IF Bit(cdb[1], 0) THEN 0 ELSE 512)
          [] op = READ_CAPACITY_10 -> ok(8)
          \* READ_BLOCK_LIMITS
          [] op = \h05 -> ok(6)
          \* SEND_VOLUME_TAG
          [] op = \hb6 -> ok(cdb[9] + cdb[8] * 256)
          \* WRITE_6 | READ_6 | READ_REVERSE: length 0 means 256 blocks
          [] op \in {\h0a, \h08, \h0f} -> ok(IF xfer = 0 THEN 256 * 512 ELSE xfer)
          \* WRITE_10 | WRITE_VERIFY_10 | WRITE_12 | WRITE_VERIFY_12 | WRITE_16
          \* | WRITE_VERIFY_16 | READ_10 | READ_12 | READ_16
          [] op \in (WriteOps \cup WriteVerifyOps \cup ReadOps) \ {\h0a, \h08} ->
                mul_block_size(xfer)
          \* FORMAT_UNIT
          [] op = \h04 ->
                ok(IF ~Bit(cdb[1], 4) THEN 0 ELSE IF ~Bit(cdb[1], 5) THEN 4 ELSE 8)
          \* INQUIRY | RECEIVE_DIAGNOSTIC | SEND_DIAGNOSTIC
          [] op \in {INQUIRY, \h1c, \h1d} -> ok(cdb[4] + cdb[3] * 256)
          \* READ_CD | READ_BUFFER | WRITE_BUFFER | SEND_CUE_SHEET
          [] op \in {\hbe, \h3c, \h3b, \h5d} ->
                ok(cdb[8] + cdb[7] * 256 + cdb[6] * 65536)
          \* PERSISTENT_RESERVE_OUT
          [] op = \h5f -> ok(BE32_as_i32(cdb, 5))
          [] OTHER -> ok(xfer)

\* -1 as an i64.
I64MinusOne == <<255, 255, 255, 255, 255, 255, 255, 255>>

\* An i64 (eight big-endian bytes) is negative.
i64_negative(w) == w[1] >= 128

\* scsi_cdb_lba(cdb): the i64 logical block address, as its eight bytes.
scsi_cdb_lba(cdb) ==
    CASE cdb[0] \div 32 = 0 ->
            <<0, 0, 0, 0, 0, cdb[1] % 32, cdb[2], cdb[3]>>
      [] cdb[0] \div 32 \in {1, 2, 5} ->
            <<0, 0, 0, 0, cdb[2], cdb[3], cdb[4], cdb[5]>>
      [] cdb[0] \div 32 = 4 ->
            <<cdb[2], cdb[3], cdb[4], cdb[5], cdb[6], cdb[7], cdb[8], cdb[9]>>
      [] OTHER -> I64MinusOne

\* The opcodes scsi_cdb_xfer_mode sends to the device (ScsiXferToDev):
\* WRITE_6 WRITE_10 WRITE_VERIFY_10 WRITE_12 WRITE_VERIFY_12 WRITE_16
\* WRITE_VERIFY_16 VERIFY_10 VERIFY_12 VERIFY_16 COPY COPY_VERIFY COMPARE
\* CHANGE_DEFINITION LOG_SELECT MODE_SELECT MODE_SELECT_10 SEND_DIAGNOSTIC
\* WRITE_BUFFER FORMAT_UNIT REASSIGN_BLOCKS SEARCH_EQUAL SEARCH_HIGH SEARCH_LOW
\* UPDATE_BLOCK WRITE_LONG_10 WRITE_SAME_10 WRITE_SAME_16 UNMAP SEARCH_HIGH_12
\* SEARCH_EQUAL_12 SEARCH_LOW_12 MEDIUM_SCAN SEND_VOLUME_TAG SEND_CUE_SHEET
\* SEND_DVD_STRUCTURE PERSISTENT_RESERVE_OUT MAINTENANCE_OUT SET_WINDOW SCAN
ToDevOps ==
    {\h0a, \h2a, \h2e, \haa, \hae, \h8a, \h8e, \h2f, \haf, \h8f, \h18, \h3a,
     \h39, \h40, \h4c, \h15, \h55, \h1d, \h3b, \h04, \h07, \h31, \h30, \h32,
     \h3d, \h3f, \h41, \h93, \h42, \hb0, \hb1, \hb2, \h38, \hb6, \h5d, \hbf,
     \h5f, \ha4, \h24, \h1b}

\* scsi_cdb_xfer_mode(cdb)
scsi_cdb_xfer_mode(cdb) ==
    CASE cdb[0] \in ToDevOps -> "ScsiXferToDev"
      \* ATA_PASSTHROUGH_12 | ATA_PASSTHROUGH_16
      [] cdb[0] \in {\ha1, \h85} ->
            IF ~Bit(cdb[2], 3) THEN "ScsiXferToDev" ELSE "ScsiXferFromDev"
      [] OTHER -> "ScsiXferFromDev"

\* ScsiBus::scsi_bus_parse_req_cdb(cdb): Some(ScsiCommand), None, or a panic.
scsi_bus_parse_req_cdb(cdb) ==
    LET none == [tag |-> "None"]
        xfer == scsi_cdb_xfer(cdb)
        lba == scsi_cdb_lba(cdb)
    IN  IF scsi_cdb_length(cdb) < 0 THEN none
        ELSE IF xfer.panic THEN [tag |-> "Panic"]
        ELSE IF xfer.val < 0 THEN none
        ELSE IF i64_negative(lba) THEN none
        ELSE [tag |-> "Some",
              buf |-> [i \in 0..15 |-> cdb[i]],
              command |-> cdb[0],
              len |-> scsi_cdb_length(cdb),
              xfer |-> xfer.val,
              lba |-> lba,
              mode |-> scsi_cdb_xfer_mode(cdb)]

\* scsi_operation_type(op)
scsi_operation_type(op) ==
    IF op \in (ReadOps \cup WriteOps \cup WriteVerifyOps)
    THEN "DMA_SCSI_OPS" ELSE "EMULATE_SCSI_OPS"

\* virtio_scsi_get_lun(lun): the 14-bit LUN of the request's lun[8] field.
virtio_scsi_get_lun(lun) == (lun[2] * 256 + lun[3]) % 16384

\* ------------------------------------------------------- SCSI: the bus

SCSI_TYPE_DISK == 0
SCSI_TYPE_ROM == 5
\* Bit numbers of ScsiDevice.state.features.
SCSI_DISK_F_REMOVABLE == 0
SCSI_DISK_F_DPOFUA == 1

\* The position of the first key of target `target` in iteration order, 0 if
\* the bus has none.
first_of_target(target) ==
    LET hits == {i \in 1..Len(dev_iter) : dev_iter[i][1] = target}
    IN  IF hits = {} THEN 0 ELSE CHOOSE i \in hits : \A j \in hits : i <= j

\* A plausible slip: the fallback loop without its target test.
get_device_any_target(target, lun) ==
    IF <<target, lun>> \in DOMAIN devices THEN <<target, lun>>
    ELSE IF Len(dev_iter) > 0 THEN dev_iter[1]
    ELSE <<>>

\* ScsiBus::get_device(target, lun): the key of the device returned, <<>> for
\* None. The device of the exact key, else the first device of the target
\* that the HashMap's iteration meets.
get_device(target, lun) ==
    IF <<target, lun>> \in DOMAIN devices THEN <<target, lun>>
    ELSE IF first_of_target(target) # 0 THEN dev_iter[first_of_target(target)]
    ELSE <<>>

\* ----------------------------------------------- SCSI: emulated commands
\* A Result<Vec<u8>> is [tag, buf] with tag Ok, Err or Panic (the thread
\* unwinds: an index out of range, a slice length mismatch, an overflow).

Ok(b) == [tag |-> "Ok", buf |-> b]
Err == [tag |-> "Err", buf |-> <<>>]
Panicked == [tag |-> "Panic", buf |-> <<>>]

\* vec![0; n]. Sequences built by a function constructor are turned into
\* tuples (\o <<>>): TLC's SubSeq and \o read such a function under EXCEPT
\* without its updates.
Zeros(n) == [i \in 1..n |-> 0] \o <<>>

\* a & b
RECURSIVE BitAnd(_, _)
BitAnd(a, b) ==
    IF a = 0 \/ b = 0 THEN 0
    ELSE (a % 2) * (b % 2) + 2 * BitAnd(a \div 2, b \div 2)
Min(a, b) == IF a < b THEN a ELSE b

\* v.truncate(n)
Truncate(v, n) == SubSeq(v, 1, Min(Len(v), n))

\* v[i] = x for each <<i, x>> of `writes`, indices as in the source; the
\* result is <<>> when an index is out of range (the write panics).
RECURSIVE SetAll(_, _)
SetAll(v, writes) ==
    IF writes = <<>> THEN <<v>>
    ELSE LET i == Head(writes)[1]
             x == Head(writes)[2]
         IN  IF i >= Len(v) THEN <<>>
             ELSE SetAll([v EXCEPT ![i + 1] = x], Tail(writes))

\* v[start..start + n].copy_from_slice(src): <<>> when the range is outside
\* v or src is not n long (both panic).
CopyFromSlice(v, start, n, src) ==
    IF start + n > Len(v) \/ Len(src) # n THEN <<>>
    ELSE <<[i \in 1..Len(v) |->
              IF i > start /\ i <= start + n THEN src[i - start] ELSE v[i]] \o <<>> >>

\* BigEndian::write_u32 of DEFAULT_SECTOR_SIZE (512).
BE32_SECTOR_SIZE == <<0, 0, 2, 0>>

\* A plausible slip: the block pages listed for every device type.
vpd_supported_pages_any_type(dev) ==
    <<0>> \o (IF dev.serial # <<>> THEN <<\h80>> ELSE <<>>)
          \o <<\h83, \hb0, \hb1, \hb2>>

\* The list that page 0x00 of scsi_command_emulate_vpd_page returns.
vpd_supported_pages(dev) ==
    <<0>> \o (IF dev.serial # <<>> THEN <<\h80>> ELSE <<>>)
          \o <<\h83>>
          \o (IF dev.scsi_type = SCSI_TYPE_DISK THEN <<\hb0, \hb1, \hb2>> ELSE <<>>)

\* scsi_command_emulate_vpd_page(cmd, dev)
scsi_command_emulate_vpd_page(cmd, dev) ==
    LET page_code == cmd.buf[2]
        head == <<dev.scsi_type % 32, page_code, 0, 0>>
        len83 == LET l == Len(dev.device_id) % 256 IN IF l > 247 THEN 247 ELSE l
        \* the page and the value of buflen, <<>> on bail!
        built ==
            CASE page_code = \h00 ->
                    LET b == head \o vpd_supported_pages(dev) IN <<b, Len(b)>>
              [] page_code = \h80 ->
                    IF Len(dev.serial) = 0 THEN <<>>
                    ELSE LET b == head \o Truncate(dev.serial, 32) IN <<b, Len(b)>>
              [] page_code = \h83 ->
                    LET b == IF len83 > 0
                             THEN head \o <<2, 0, 0, len83>>
                                       \o Truncate(dev.device_id, len83)
                             ELSE head
                    IN  <<b, Len(b)>>
              [] page_code = \hb0 ->
                    IF dev.scsi_type = SCSI_TYPE_ROM THEN <<>>
                    ELSE <<[i \in 1..64 |->
                              CASE i = 5 -> 1
                                [] i \in {10, 42} -> \h7f
                                [] i \in {11, 12, 43, 44} -> \hff
                                [] i = 22 -> \h20
                                [] i = 28 -> 255
                                [] i = 32 -> 8
                                [] i = 1 -> head[1]
                                [] i = 2 -> head[2]
                                [] OTHER -> 0] \o <<>>, 64>>
              [] page_code = \hb1 -> <<head \o <<0, 0, 0, 0, 0>>, \h40>>
              [] page_code = \hb2 -> <<head \o <<0, \he0, 1, 0>>, 8>>
              [] OTHER -> <<>>
    IN  IF built = <<>> THEN Err
        ELSE Ok([built[1] EXCEPT ![4] = (built[2] % 256) - 4])

TYPE_UNKNOWN_INACTIVE == \h3f
TYPE_NO_LUN == \h7f
SCSI_TARGET_INQUIRY_LEN == 36
SCSI_MAX_INQUIRY_LEN == 256

\* scsi_command_emulate_target_inquiry(lun, cmd)
scsi_command_emulate_target_inquiry(lun, cmd) ==
    LET len == Min(cmd.xfer, SCSI_TARGET_INQUIRY_LEN)
    IN  IF cmd.buf[1] = 1
        THEN IF cmd.buf[2] = 0 THEN Ok(<<0, 0, 0, 1, 0>>) ELSE Err
        ELSE IF cmd.buf[2] # 0 THEN Err
        ELSE IF lun # 0
             THEN Ok([Zeros(SCSI_TARGET_INQUIRY_LEN) EXCEPT ![1] = TYPE_NO_LUN])
        \* outbuf[4] = len as u8 - 5
        ELSE IF len < 5 /\ overflow_checks THEN Panicked
        ELSE Ok([Zeros(SCSI_TARGET_INQUIRY_LEN) EXCEPT
                    ![1] = TYPE_UNKNOWN_INACTIVE, ![3] = 5, ![4] = \h12,
                    ![5] = (len + 256 - 5) % 256, ![8] = \h12])

\* scsi_command_emulate_inquiry(cmd, dev)
scsi_command_emulate_inquiry(cmd, dev) ==
    IF cmd.buf[1] = 1 THEN scsi_command_emulate_vpd_page(cmd, dev)
    ELSE IF cmd.buf[2] # 0 THEN Err
    ELSE
    LET buflen == Min(cmd.xfer, SCSI_MAX_INQUIRY_LEN)
        s1 == SetAll(Zeros(buflen),
                     << <<0, dev.scsi_type % 32>>,
                        <<1, IF BitAnd(dev.features, SCSI_DISK_F_REMOVABLE) = 1
                             THEN \h80 ELSE 0>> >>)
        s2 == IF s1 = <<>> THEN <<>>
              ELSE CopyFromSlice(s1[1], 16, Min(Len(dev.product), 16), dev.product)
        s3 == IF s2 = <<>> THEN <<>>
              ELSE CopyFromSlice(s2[1], 8, Min(Len(dev.vendor), 8), dev.vendor)
        s4 == IF s3 = <<>> THEN <<>>
              ELSE CopyFromSlice(s3[1], 32, Min(Len(dev.version), 4), dev.version)
        s5 == IF s4 = <<>> THEN <<>>
              ELSE SetAll(s4[1],
                          << <<2, 5>>, <<3, \h12>>,
                             <<4, IF buflen > 36 THEN buflen - 5 ELSE 36 - 5>>,
                             <<7, \h12>> >>)
    IN  IF s5 = <<>> THEN Panicked ELSE Ok(s5[1])

\* A u64 (eight big-endian bytes) is zero.
u64_zero(w) == \A i \in 1..8 : w[i] = 0

\* scsi_command_emulate_read_capacity_10(cmd, dev)
scsi_command_emulate_read_capacity_10(cmd, dev) ==
    IF ~Bit(cmd.buf[8], 0) /\ ~u64_zero(cmd.lba) THEN Err
    \* cmp::min(disk_sectors as u32, u32::MAX): the low four bytes
    ELSE Ok(SubSeq(dev.disk_sectors, 5, 8) \o BE32_SECTOR_SIZE)

\* scsi_command_emulate_mode_sense_page(page, page_control, outbuf): the
\* buffer with the page appended, <<>> on bail!
scsi_command_emulate_mode_sense_page(page, page_control, outbuf) ==
    CASE page = \h08 ->
            <<outbuf \o [Zeros(20) EXCEPT ![1] = page, ![2] = 18, ![3] = 4] \o <<>> >>
      [] page = \h01 ->
            <<outbuf \o [Zeros(12) EXCEPT ![1] = page, ![2] = 10,
                                          ![3] = IF page_control # 1 THEN \h80 ELSE 0]>>
      [] OTHER -> <<>>

\* A plausible slip: the pages visited from the highest code down.
RECURSIVE mode_sense_all_pages_descending(_, _, _, _)
mode_sense_all_pages_descending(pg, page_code, page_control, outbuf) ==
    IF page_code <= pg THEN outbuf
    ELSE LET r == scsi_command_emulate_mode_sense_page(page_code - 1, page_control, outbuf)
         IN  mode_sense_all_pages_descending(pg, page_code - 1, page_control,
                                             IF r = <<>> THEN outbuf ELSE r[1])

\* for pg in 0..page_code { let _ = mode_sense_page(pg, ..) }, from pg on.
RECURSIVE mode_sense_all_pages(_, _, _, _)
mode_sense_all_pages(pg, page_code, page_control, outbuf) ==
    IF pg >= page_code THEN outbuf
    ELSE LET r == scsi_command_emulate_mode_sense_page(pg, page_control, outbuf)
         IN  mode_sense_all_pages(pg + 1, page_code, page_control,
                                  IF r = <<>> THEN outbuf ELSE r[1])

\* scsi_command_emulate_mode_sense(cmd, dev)
scsi_command_emulate_mode_sense(cmd, dev) ==
    LET is_disk == dev.scsi_type = SCSI_TYPE_DISK
        dbd == IF is_disk THEN Bit(cmd.buf[1], 3) ELSE TRUE
        page_code == cmd.buf[2] % 64
        page_control == cmd.buf[2] \div 64
        dev_specific_parameter ==
            IF is_disk /\ Bit(dev.features, SCSI_DISK_F_DPOFUA) THEN \h10 ELSE 0
        six == cmd.command = MODE_SENSE
        has_desc == ~dbd /\ ~u64_zero(dev.disk_sectors)
        header == IF six
                  THEN <<0, 0, dev_specific_parameter, IF has_desc THEN 8 ELSE 0>>
                  ELSE <<0, 0, 0, dev_specific_parameter, 0, 0, 0,
                         IF has_desc THEN 8 ELSE 0>>
        \* nb_sectors as u32 & 0xffffff, then the block length
        block_desc == IF has_desc
                      THEN <<0>> \o SubSeq(dev.disk_sectors, 6, 8) \o BE32_SECTOR_SIZE
                      ELSE <<>>
        start == header \o block_desc
        paged == IF page_code = \h3f
                 THEN <<mode_sense_all_pages(0, page_code, page_control, start)>>
                 ELSE scsi_command_emulate_mode_sense_page(page_code, page_control, start)
    IN  IF page_control = 3 THEN Err
        ELSE IF paged = <<>> THEN Err
        ELSE LET outbuf == paged[1]
                 buflen == Len(outbuf)
             IN  Ok(IF six
                    THEN [outbuf EXCEPT ![1] = (buflen - 1) % 256]
                    ELSE [outbuf EXCEPT ![1] = ((buflen - 2) \div 256) % 256,
                                        ![2] = (buflen - 2) % 256])

\* A plausible slip: every LUN encoded in the single-level format.
lun_entry_single_level(lun) == <<0, lun % 256, 0, 0, 0, 0, 0, 0>>

\* The 8-byte entry of REPORT LUNS for a lun.
lun_entry(lun) ==
    IF lun < 256 THEN <<0, lun, 0, 0, 0, 0, 0, 0>>
    ELSE LET hi == (lun \div 256) % 256
         IN  <<IF Bit(hi, 6) THEN hi ELSE hi + 64, lun % 256, 0, 0, 0, 0, 0, 0>>

\* The loop of scsi_command_emulate_report_luns over the bus's devices, in
\* the HashMap's iteration order, from position i on.
RECURSIVE report_luns_entries(_, _)
report_luns_entries(i, target) ==
    IF i > Len(dev_iter) THEN <<>>
    ELSE (IF devices[dev_iter[i]].target # target THEN <<>>
          ELSE lun_entry(devices[dev_iter[i]].lun))
         \o report_luns_entries(i + 1, target)

\* scsi_command_emulate_report_luns(cmd, dev)
scsi_command_emulate_report_luns(cmd, dev) ==
    IF cmd.xfer < 16 THEN Err
    ELSE IF cmd.buf[2] > 2 THEN Err
    ELSE LET entries == report_luns_entries(1, dev.target)
             len == Len(entries)
         IN  Ok(<<0, 0, (len \div 256) % 256, len % 256, 0, 0, 0, 0>> \o entries)

\* A plausible slip: the sector count written as a 32-bit value.
service_action_in_16_u32(cmd, dev) ==
    IF cmd.buf[1] % 32 = \h10
    THEN Ok(<<0, 0, 0, 0>> \o SubSeq(dev.disk_sectors, 5, 8) \o BE32_SECTOR_SIZE
            \o Zeros(20))
    ELSE Err

\* scsi_command_emulate_service_action_in_16(cmd, dev)
scsi_command_emulate_service_action_in_16(cmd, dev) ==
    \* SUBCODE_READ_CAPACITY_16
    IF cmd.buf[1] % 32 = \h10
    THEN Ok(dev.disk_sectors \o BE32_SECTOR_SIZE \o Zeros(20))
    ELSE Err

\* ------------------------------------------------- SCSI: request handling

GOOD == \h00
CHECK_CONDITION == \h02
VIRTIO_SCSI_S_OK == 0
SCSI_SENSE_LEN == 18
ILLEGAL_REQUEST == \h05

\* scsisense!(key, asc, ascq)
scsisense(key, asc, ascq) == [key |-> key, asc |-> asc, ascq |-> ascq]
SCSI_SENSE_NO_SENSE == scsisense(\h00, \h00, \h00)
SCSI_SENSE_INVALID_OPCODE == scsisense(ILLEGAL_REQUEST, \h20, \h00)
SCSI_SENSE_INVALID_FIELD == scsisense(ILLEGAL_REQUEST, \h24, \h00)
SCSI_SENSE_LUN_NOT_SUPPORTED == scsisense(ILLEGAL_REQUEST, \h25, \h00)

\* The response of a request the engine has not touched (the first
\* SCSI_SENSE_LEN bytes of its sense array).
VirtioScsiCmdResp ==
    [sense_len |-> 0, resid |-> 0, status |-> 0, response |-> 0,
     sense |-> Zeros(SCSI_SENSE_LEN)]

\* ScsiRequest::set_scsi_sense(sense) on the response resp
set_scsi_sense(resp, sense) ==
    [resp EXCEPT !.sense = [@ EXCEPT ![1] = \h70, ![3] = sense.key,
                                     ![8] = SCSI_SENSE_LEN - 8,
                                     ![13] = sense.asc, ![14] = sense.ascq],
                 !.sense_len = SCSI_SENSE_LEN]

\* write_buf_mem(buf, max, hva): the bytes that land at hva.
write_buf_mem(buf, max) == SubSeq(buf, 1, Min(Len(buf), max))

\* ScsiRequest::cmd_complete(mem_space, response, status, scsisense, outbuf)
\* on the request req: sense (scsisense) is <<>> for None or <<s>> for Some(s).
cmd_complete(req, response, status, sense, outbuf) ==
    LET sensed == IF sense = <<>> THEN req.resp
                  ELSE set_scsi_sense(req.resp, sense[1])
    IN  [req EXCEPT
            !.resp = [sensed EXCEPT !.response = response, !.status = status,
                                    !.resid = 0],
            !.data = IF outbuf = <<>> THEN @
                     ELSE [i \in 1..Len(req.iovec) |->
                              write_buf_mem(outbuf, req.iovec[i])],
            !.completions = @ + 1]

\* A plausible slip: a target request dispatched like a request to the LUN.
is_target_request_never(command, req_lun_id, found_lun_id) == FALSE

\* The test of emulate_execute that sends a command to the target branch.
is_target_request(command, req_lun_id, found_lun_id) ==
    req_lun_id # found_lun_id \/ command = REPORT_LUNS

\* The sense of the Err arm of emulate_execute.
error_sense(not_supported_flag) ==
    IF not_supported_flag THEN SCSI_SENSE_INVALID_OPCODE
    ELSE SCSI_SENSE_INVALID_FIELD

\* The first match of emulate_execute: the result, the sense chosen and
\* not_supported_flag, for command cmd on device dev.
emulate_result(cmd, dev, req_lun_id, found_lun_id) ==
    LET R(result, sense, flag) ==
            [result |-> result, sense |-> sense, not_supported_flag |-> flag]
        command == cmd.command
    IN  IF is_target_request(command, req_lun_id, found_lun_id)
        THEN CASE command = REPORT_LUNS ->
                    R(scsi_command_emulate_report_luns(cmd, dev), <<>>, FALSE)
               [] command = INQUIRY ->
                    R(scsi_command_emulate_target_inquiry(req_lun_id, cmd), <<>>, FALSE)
               [] command = REQUEST_SENSE ->
                    R(Ok(<<>>),
                      IF req_lun_id # 0 THEN <<SCSI_SENSE_LUN_NOT_SUPPORTED>> ELSE <<>>,
                      FALSE)
               [] command = TEST_UNIT_READY -> R(Ok(<<>>), <<>>, FALSE)
               [] OTHER -> R(Err, <<SCSI_SENSE_INVALID_OPCODE>>, TRUE)
        ELSE CASE command = REQUEST_SENSE -> R(Ok(<<>>), <<SCSI_SENSE_NO_SENSE>>, FALSE)
               [] command \in {WRITE_SAME_10, WRITE_SAME_16, SYNCHRONIZE_CACHE} ->
                    R(Ok(<<>>), <<>>, FALSE)
               [] command = TEST_UNIT_READY ->
                    R(IF ~dev.disk_image THEN Err ELSE Ok(<<>>), <<>>, FALSE)
               [] command = INQUIRY ->
                    R(scsi_command_emulate_inquiry(cmd, dev), <<>>, FALSE)
               [] command = READ_CAPACITY_10 ->
                    R(scsi_command_emulate_read_capacity_10(cmd, dev), <<>>, FALSE)
               [] command \in {MODE_SENSE, MODE_SENSE_10} ->
                    R(scsi_command_emulate_mode_sense(cmd, dev), <<>>, FALSE)
               [] command = SERVICE_ACTION_IN_16 ->
                    R(scsi_command_emulate_service_action_in_16(cmd, dev), <<>>, FALSE)
               [] OTHER -> R(Err, <<>>, TRUE)

\* ScsiRequest::emulate_execute(iocompletecb, req_lun_id, found_lun_id) of
\* the ScsiRequest s on its request req: <<>> when it panics, else the
\* request as completed.
emulate_execute(s, req, req_lun_id, found_lun_id) ==
    LET r == emulate_result(s.cmd, devices[s.dev], req_lun_id, found_lun_id)
    IN  CASE r.result.tag = "Panic" -> <<>>
          [] r.result.tag = "Ok" ->
                <<cmd_complete(req, VIRTIO_SCSI_S_OK, GOOD, r.sense, r.result.buf)>>
          [] r.result.tag = "Err" ->
                <<cmd_complete(req, VIRTIO_SCSI_S_OK, CHECK_CONDITION,
                               <<error_sense(r.not_supported_flag)>>, <<>>)>>

\* ScsiRequest::new(req, scsibus, scsidevice): <<>> when parsing panics,
\* [tag |-> "Err"] on bail!, else the ScsiRequest.
ScsiRequest_new(req, scsidevice) ==
    LET p == scsi_bus_parse_req_cdb(req.cdb)
    IN  CASE p.tag = "Panic" -> <<>>
          [] p.tag = "None" -> <<[tag |-> "Err"]>>
          [] p.tag = "Some" ->
                <<[tag |-> "Ok", cmd |-> p, opstype |-> scsi_operation_type(p.command),
                   resid |-> p.xfer, dev |-> scsidevice]>>

\* w << 1 and w << 9 on a u64 (eight big-endian bytes): the bits shifted
\* out are lost.
shl1(w) == [i \in 1..8 |-> (2 * w[i] + (IF i < 8 THEN w[i + 1] \div 128 ELSE 0)) % 256] \o <<>>
shl9(w) == shl1(Tail(w) \o <<0>>)

\* The AioCb that ScsiRequest::execute builds for the ScsiRequest s.
AioCb(s, req) ==
    [opcode |-> IF s.cmd.mode = "ScsiXferFromDev" THEN "Preadv" ELSE "Pwritev",
     offset |-> shl9(s.cmd.lba),
     iovec |-> req.iovec]

\* The completions that can be delivered now: the reorder buffer hands the
\* finished submissions to the used ring in the order of their indices.
RECURSIVE flush(_, _)
flush(a, ring) ==
    IF (a.delivered + 1) \in a.reorder
    THEN flush([a EXCEPT !.delivered = @ + 1, !.reorder = @ \ {a.delivered + 1}],
               Append(ring, a.submitted[a.delivered + 1]))
    ELSE <<a, ring>>

\* A plausible slip: each completion delivered as the host finishes it.
complete_io_unordered(a, ring, n) ==
    <<[a EXCEPT !.inflight = @ \ {n}, !.finished = Append(@, n),
                !.delivered = @ + 1],
      Append(ring, a.submitted[n])>>

\* The completion callback for submission n of the Aio a: the Aio and the
\* used ring after it.
complete_io(a, ring, n) ==
    flush([a EXCEPT !.inflight = @ \ {n}, !.reorder = @ \cup {n},
                    !.finished = Append(@, n)], ring)

\* ---------------------------------------------- SCSI: the queue handler

\* The handler looks the device up on the bus.
GetDevice ==
    /\ pc = "lookup"
    /\ LET k == get_device(vreq.lun[1], virtio_scsi_get_lun(vreq.lun))
       IN  IF k = <<>>
           THEN pc' = "no_device" /\ vreq' = vreq
           ELSE pc' = "new" /\ vreq' = [vreq EXCEPT !.found = k]
    /\ UNCHANGED <<overflow_checks, devices, dev_iter, sreq, aio, used_ring>>
    /\ UNCHANGED lifeVars
    /\ UNCHANGED <<ramVars, restVars>>

\* ScsiRequest::new
NewRequest ==
    /\ pc = "new"
    /\ LET r == ScsiRequest_new(vreq, vreq.found)
       IN  CASE r = <<>> -> pc' = "panic" /\ sreq' = sreq
             [] r # <<>> /\ r[1].tag = "Err" -> pc' = "bad_cdb" /\ sreq' = sreq
             [] r # <<>> /\ r[1].tag = "Ok" ->
                   /\ sreq' = r[1]
                   /\ pc' = IF r[1].opstype = "EMULATE_SCSI_OPS" THEN "emulate" ELSE "dma"
    /\ UNCHANGED <<overflow_checks, devices, dev_iter, vreq, aio, used_ring>>
    /\ UNCHANGED lifeVars
    /\ UNCHANGED <<ramVars, restVars>>

\* ScsiRequest::emulate_execute, with req.complete() adding the request to
\* the used ring.
EmulateExecute ==
    /\ pc = "emulate"
    /\ LET r == emulate_execute(sreq, vreq, virtio_scsi_get_lun(vreq.lun),
                                devices[sreq.dev].lun)
       IN  IF r = <<>>
           THEN pc' = "panic" /\ UNCHANGED <<vreq, used_ring>>
           ELSE /\ pc' = "done"
                /\ vreq' = r[1]
                /\ used_ring' = Append(used_ring, vreq.tag)
    /\ UNCHANGED <<overflow_checks, devices, dev_iter, sreq, aio>>
    /\ UNCHANGED lifeVars
    /\ UNCHANGED <<ramVars, restVars>>

\* ScsiRequest::execute: rw_aio (direct) leaves the request with the host,
\* rw_sync runs it and its completion callback inline.
Execute ==
    /\ pc = "dma"
    /\ \E direct \in BOOLEAN :
          LET n == Len(aio.submitted) + 1
              a == [aio EXCEPT !.submitted = Append(@, vreq.tag),
                               !.inflight = @ \cup {n}]
              done == complete_io(a, used_ring, n)
          IN  /\ vreq' = [vreq EXCEPT !.aiocb = <<AioCb(sreq, vreq)>>,
                                       !.direct = <<direct>>]
              /\ IF direct
                 THEN aio' = a /\ used_ring' = used_ring
                 ELSE aio' = done[1] /\ used_ring' = done[2]
    /\ pc' = "submitted"
    /\ UNCHANGED <<overflow_checks, devices, dev_iter, sreq>>
    /\ UNCHANGED lifeVars
    /\ UNCHANGED <<ramVars, restVars>>

\* The host finishes one of the submissions it is working on, in any order.
AioComplete ==
    /\ \E n \in aio.inflight :
          LET done == complete_io(aio, used_ring, n)
          IN  aio' = done[1] /\ used_ring' = done[2]
    /\ UNCHANGED <<overflow_checks, devices, dev_iter, vreq, sreq, pc>>
    /\ UNCHANGED lifeVars
    /\ UNCHANGED <<ramVars, restVars>>

\* ------------------------------------------------------- SCSI: the inputs

\* A disk with a backing file of 2^32 + 2048 sectors, and a CD-ROM without
\* medium.
DiskDev(target, lun) ==
    [scsi_type |-> SCSI_TYPE_DISK, features |-> 2, serial |-> <<83, 49>>,
     vendor |-> <<83, 84>>, product |-> <<68, 73, 83, 75>>, version |-> <<49>>,
     device_id |-> <<105, 100>>, disk_image |-> TRUE,
     disk_sectors |-> <<0, 0, 0, 1, 0, 0, 8, 0>>, target |-> target, lun |-> lun]

RomDev(target, lun) ==
    [scsi_type |-> SCSI_TYPE_ROM, features |-> 1, serial |-> <<>>,
     vendor |-> <<83, 84>>, product |-> <<67, 68>>, version |-> <<50>>,
     device_id |-> <<>>, disk_image |-> FALSE,
     disk_sectors |-> <<0, 0, 0, 0, 0, 0, 0, 0>>, target |-> target, lun |-> lun]

\* The buses: each device is registered under its configured (target, lun).
Buses ==
    { (<<0, 0>> :> DiskDev(0, 0)) @@ (<<0, 1>> :> RomDev(0, 1)),
      (<<0, 1>> :> DiskDev(0, 1)) @@ (<<0, 258>> :> RomDev(0, 258))
          @@ (<<1, 0>> :> DiskDev(1, 0)),
      \* a disk whose strings are one byte longer than the INQUIRY fields
      (<<0, 0>> :> [DiskDev(0, 0) EXCEPT !.vendor = [i \in 1..9 |-> 64 + i],
                                         !.product = [i \in 1..17 |-> 64 + i],
                                         !.version = [i \in 1..5 |-> 48 + i]]) }

\* The orders in which a HashMap of these keys can iterate.
IterOrders(keys) ==
    {f \in [1..Cardinality(keys) -> keys] : \A i, j \in DOMAIN f : f[i] = f[j] => i = j}

\* A 32-byte CDB: opcode, bytes 1 and 2, `alen` in the last byte of each
\* group's transfer-length field (bytes 4, 8, 9, 13) and `top` in the first
\* byte of the 32-bit ones (bytes 6, 10).
Cdb(op, b1, b2, alen, top) ==
    [i \in 0..31 |->
        CASE i = 0 -> op
          [] i = 1 -> b1
          [] i = 2 -> b2
          [] i \in {4, 8, 9, 13} -> alen
          [] i \in {6, 10} -> top
          [] OTHER -> 0]

\* The request's lun[8] field.
LunField(target, hi, lo) ==
    [i \in 0..7 |-> CASE i = 0 -> 1 [] i = 1 -> target [] i = 2 -> hi
                      [] i = 3 -> lo [] OTHER -> 0]

\* A VirtioScsiRequest as the handler dequeues it.
Request(tag, cdb, lun, iovec) ==
    [tag |-> tag, cdb |-> cdb, lun |-> lun, iovec |-> iovec,
     resp |-> VirtioScsiCmdResp, data |-> [i \in 1..Len(iovec) |-> <<>>],
     completions |-> 0, found |-> <<>>, aiocb |-> <<>>, direct |-> <<>>]

\* The opcodes tried: the emulated ones, DMA ones, ones the engine has no
\* arm for (START_STOP, MODE_SELECT, VERIFY_10, UNMAP, ATA_PASSTHROUGH_12)
\* and one of each group code without a length (3, 6, 7).
EmuOps ==
    {TEST_UNIT_READY, REQUEST_SENSE, INQUIRY, MODE_SENSE, READ_CAPACITY_10,
     SYNCHRONIZE_CACHE, WRITE_SAME_10, MODE_SENSE_10, WRITE_SAME_16,
     SERVICE_ACTION_IN_16, REPORT_LUNS,
     \h08, \h28, \h2a, \h8a,
     \h1b, \h15, \h2f, \h42, \ha1,
     \h60, \hc0, \hff}

EmuCdbs ==
    {Cdb(op, b1, b2, alen, 0) :
        op \in EmuOps, b1 \in {\h00, \h01, \h08, \h10},
        b2 \in {\h00, \h3f, \h7f, \h80, \hb0, \hc8},
        alen \in {0, 4, 36, 255}}

EmuLuns ==
    {LunField(0, 0, 0), LunField(0, \h40, 1), LunField(0, 0, 2), LunField(1, 0, 0),
     LunField(2, 0, 0)}

\* One request on a bus, about to be handled.
InitEmu ==
    /\ LifeInit
    /\ RamIdle
    /\ RestIdle
    /\ overflow_checks \in BOOLEAN
    /\ devices \in Buses
    /\ dev_iter \in IterOrders(DOMAIN devices)
    /\ \E cdb \in EmuCdbs, lun \in EmuLuns, iovec \in {<<64>>, <<8, 4>>} :
          vreq = Request(1, cdb, lun, iovec)
    /\ sreq = <<>>
    /\ pc = "lookup"
    /\ aio = AioEmpty
    /\ used_ring = <<>>

NextEmu ==
    \/ GetDevice
    \/ NewRequest
    \/ EmulateExecute
    \/ Execute
    \/ AioComplete

SpecEmu == InitEmu /\ [][NextEmu]_vars

\* A CDB alone, about to be parsed: the opcodes of EmuOps and READ_12,
\* READ_16, VERIFY_16, ATA_PASSTHROUGH_16, with every length byte and the
\* first byte of the 32-bit length fields varied.
CdbInputs ==
    {Cdb(op, b1, b2, alen, top) :
        op \in EmuOps \cup {\ha8, \h88, \h8f, \h85}, b1 \in {\h00, \h02, \h06},
        b2 \in {\h00, \h80}, alen \in {0, 1, 255}, top \in {\h00, \h40, \h80}}

InitCdb ==
    /\ LifeInit
    /\ RamIdle
    /\ RestIdle
    /\ overflow_checks \in BOOLEAN
    /\ devices = <<>>
    /\ dev_iter = <<>>
    /\ \E cdb \in CdbInputs : vreq = Request(1, cdb, LunField(0, 0, 0), <<>>)
    /\ sreq = <<>>
    /\ pc = "parse"
    /\ aio = AioEmpty
    /\ used_ring = <<>>

\* ScsiBus::scsi_bus_parse_req_cdb on the request's CDB.
ParseCdb ==
    /\ pc = "parse"
    /\ sreq' = scsi_bus_parse_req_cdb(vreq.cdb)
    /\ pc' = "parsed"
    /\ UNCHANGED <<overflow_checks, devices, dev_iter, vreq, aio, used_ring>>
    /\ UNCHANGED lifeVars
    /\ UNCHANGED <<ramVars, restVars>>

NextCdb == ParseCdb

SpecCdb == InitCdb /\ [][NextCdb]_vars

\* A virtqueue of up to MaxReqs requests for the disk at (0, 0): READ_6,
\* READ_10, WRITE_10 or TEST_UNIT_READY, each of one block.
AioCdbs == {Cdb(op, 0, 0, 1, 0) : op \in {\h08, \h28, \h2a, TEST_UNIT_READY}}

InitAio ==
    /\ LifeInit
    /\ RamIdle
    /\ RestIdle
    /\ overflow_checks \in BOOLEAN
    /\ devices = (<<0, 0>> :> DiskDev(0, 0))
    /\ dev_iter = << <<0, 0>> >>
    /\ \E cdb \in AioCdbs : vreq = Request(1, cdb, LunField(0, 0, 0), <<64>>)
    /\ sreq = <<>>
    /\ pc = "lookup"
    /\ aio = AioEmpty
    /\ used_ring = <<>>

\* The handler is through with a request and dequeues the next one.
NextRequest ==
    /\ pc \in {"done", "submitted"}
    /\ vreq.tag < MaxReqs
    /\ \E cdb \in AioCdbs :
          vreq' = Request(vreq.tag + 1, cdb, LunField(0, 0, 0), <<64>>)
    /\ sreq' = <<>>
    /\ pc' = "lookup"
    /\ UNCHANGED <<overflow_checks, devices, dev_iter, aio, used_ring>>
    /\ UNCHANGED lifeVars
    /\ UNCHANGED <<ramVars, restVars>>

NextAio ==
    \/ NextRequest
    \/ GetDevice
    \/ NewRequest
    \/ EmulateExecute
    \/ Execute
    \/ AioComplete

SpecAio == InitAio /\ [][NextAio]_vars

\* ------------------------------------------------------- SCSI: the claims

ReqLun == virtio_scsi_get_lun(vreq.lun)
RespSense == <<vreq.resp.sense[3], vreq.resp.sense[13], vreq.resp.sense[14]>>
SenseTriple(s) == <<s.key, s.asc, s.ascq>>
NoData == \A i \in DOMAIN vreq.data : vreq.data[i] = <<>>

\* C6: handling any request ends by completing it exactly once with status
\* GOOD or CHECK_CONDITION, and no CDB makes the engine panic. The engine
\* does not keep this: TLC reaches a panic.
C6_EveryRequestCompletedOnce ==
    /\ pc # "panic"
    /\ pc = "done" =>
          /\ vreq.completions = 1
          /\ vreq.resp.status \in {GOOD, CHECK_CONDITION}

\* C7: get_device returns the device of the exact key when there is one,
\* else a device of the same target when there is one, and None exactly
\* when the bus has no device of that target; never a device of another
\* target.
C7_GetDeviceTwoStage ==
    pc # "lookup" =>
        LET t == vreq.lun[1]
            k == vreq.found
            on_target == {key \in DOMAIN devices : key[1] = t}
        IN  /\ <<t, ReqLun>> \in DOMAIN devices => k = <<t, ReqLun>>
            /\ on_target # {} => k \in on_target
            /\ k = <<>> <=> on_target = {}

\* The lookup fell back to a device of the target, chosen among several.
C7_Witness ==
    /\ pc = "new"
    /\ vreq.found # <<vreq.lun[1], ReqLun>>
    /\ Cardinality({key \in DOMAIN devices : key[1] = vreq.lun[1]}) > 1

\* A request that emulate_execute has completed as a target request.
TargetRequestDone ==
    /\ pc = "done"
    /\ ReqLun # devices[sreq.dev].lun

\* C8: on a target request emulate_execute honours only REPORT_LUNS,
\* INQUIRY, REQUEST_SENSE and TEST_UNIT_READY; REQUEST_SENSE carries sense
\* LUN_NOT_SUPPORTED exactly when the requested LUN is not 0; every other
\* opcode completes with CHECK_CONDITION, sense INVALID_OPCODE and no data.
C8_TargetRequestHonoursFour ==
    TargetRequestDone =>
        LET op == sreq.cmd.command
        IN  /\ op = REQUEST_SENSE =>
                /\ vreq.resp.status = GOOD
                /\ ReqLun # 0 =>
                      /\ vreq.resp.sense_len = SCSI_SENSE_LEN
                      /\ RespSense = SenseTriple(SCSI_SENSE_LUN_NOT_SUPPORTED)
                /\ ReqLun = 0 => vreq.resp.sense_len = 0
            /\ op = TEST_UNIT_READY => vreq.resp.status = GOOD /\ NoData
            /\ op \in {REPORT_LUNS, INQUIRY} =>
                \/ vreq.resp.status = GOOD
                \/ /\ vreq.resp.status = CHECK_CONDITION
                   /\ RespSense = SenseTriple(SCSI_SENSE_INVALID_FIELD)
            /\ op \notin {REPORT_LUNS, INQUIRY, REQUEST_SENSE, TEST_UNIT_READY} =>
                /\ vreq.resp.status = CHECK_CONDITION
                /\ vreq.resp.sense_len = SCSI_SENSE_LEN
                /\ RespSense = SenseTriple(SCSI_SENSE_INVALID_OPCODE)
                /\ NoData

\* A target request for a command that a LUN would have served.
C8_Witness ==
    /\ TargetRequestDone
    /\ sreq.cmd.command = MODE_SENSE
    /\ ReqLun # 0
    /\ vreq.resp.status = CHECK_CONDITION

\* The opcodes emulate_execute or execute has an arm for.
SupportedOps ==
    {TEST_UNIT_READY, REQUEST_SENSE, INQUIRY, MODE_SENSE, READ_CAPACITY_10,
     SYNCHRONIZE_CACHE, WRITE_SAME_10, MODE_SENSE_10, WRITE_SAME_16,
     SERVICE_ACTION_IN_16, REPORT_LUNS}
        \cup ReadOps \cup WriteOps \cup WriteVerifyOps

C10_ParsesExactlyValidGroups ==
    pc = "parsed" =>
        (sreq.tag = "Some" <=> (vreq.cdb[0] \div 32) \in {0, 1, 2, 4, 5})

\* C11: for every READ_6/10/12/16 and WRITE_6/10/12/16 the parsed transfer
\* length is the block count of the CDB's transfer-length field times 512,
\* a 6-byte command with cdb[4] = 0 counting as 256 blocks. The code does
\* not keep this: the 6-byte commands are not multiplied.
C11_BulkXferIsBlocksTimes512 ==
    (pc = "parsed" /\ vreq.cdb[0] \in (ReadOps \cup WriteOps)) =>
        LET c == vreq.cdb
            group == c[0] \div 32
            \* the transfer-length field as four big-endian bytes
            field == CASE group = 0 -> <<0, 0, IF c[4] = 0 THEN 1 ELSE 0, c[4]>>
                       [] group = 1 -> <<0, 0, c[7], c[8]>>
                       [] group = 4 -> <<c[10], c[11], c[12], c[13]>>
                       [] group = 5 -> <<c[6], c[7], c[8], c[9]>>
        IN  /\ sreq.tag = "Some"
            /\ sreq.xfer % 512 = 0
            /\ field[1] = 0
            /\ sreq.xfer \div 512 = field[2] * 65536 + field[3] * 256 + field[4]

\* C12: for the DMA opcodes, and for no other, execute submits exactly one
\* I/O control block with offset lba x 512, the request's iovec list and
\* opcode PREADV for reads, PWRITEV for writes and write-verifies, to the
\* asynchronous backend when direct is set and inline otherwise. The code
\* does not keep this: lba << 9 drops the top nine bits of the LBA.
C12_ExecuteSubmitsOneAioCb ==
    /\ pc = "done" => vreq.aiocb = <<>>
    /\ pc = "submitted" =>
        LET c == vreq.cdb
            group == c[0] \div 32
            lba == CASE group = 0 -> <<0, 0, 0, 0, 0, c[1] % 32, c[2], c[3]>>
                     [] group \in {1, 5} -> <<0, 0, 0, 0, c[2], c[3], c[4], c[5]>>
                     [] group = 4 -> <<c[2], c[3], c[4], c[5], c[6], c[7], c[8], c[9]>>
            cb == vreq.aiocb[1]
            n == CHOOSE i \in DOMAIN aio.submitted : aio.submitted[i] = vreq.tag
            \* offset / 512, and its remainder
            quot == [i \in 1..8 |->
                       IF i = 1 THEN 0
                       ELSE (cb.offset[i - 1] \div 2)
                            + (IF i > 2 THEN (cb.offset[i - 2] % 2) * 128 ELSE 0)]
        IN  /\ c[0] \in (ReadOps \cup WriteOps \cup WriteVerifyOps)
            /\ Len(vreq.aiocb) = 1
            /\ cb.iovec = vreq.iovec
            /\ cb.opcode = IF c[0] \in ReadOps THEN "Preadv" ELSE "Pwritev"
            /\ cb.offset[8] = 0 /\ cb.offset[7] % 2 = 0
            /\ quot = lba
            /\ vreq.direct = <<FALSE>> => n \notin aio.inflight
            /\ vreq.direct = <<TRUE>> =>
                  (n \in aio.inflight \/ \E i \in DOMAIN aio.finished : aio.finished[i] = n)

\* A request for command op that emulate_execute completed with GOOD, with
\* a first iovec element that holds the whole payload.
EmulatedGood(op) ==
    /\ pc = "done"
    /\ sreq.cmd.command = op
    /\ vreq.resp.status = GOOD
    /\ vreq.iovec = <<64>>

\* The devices' keys on the target the request addresses.
OnTarget == {key \in DOMAIN devices : key[1] = vreq.lun[1]}

\* C13: REPORT_LUNS with xfer >= 16 and cdb[2] <= 2 succeeds and returns an
\* 8-byte header, whose BE32 is 8 x the number of entries, and exactly one
\* 8-byte entry per device of the addressed target, none for other targets:
\* [0, lun, 0...] for a LUN below 256, [0x40 | (lun >> 8), lun & 0xFF, 0...]
\* otherwise.
C13_ReportLunsListsTarget ==
    (pc = "done" /\ sreq.cmd.command = REPORT_LUNS /\ vreq.iovec = <<64>>) =>
        LET buf == vreq.data[1]
            n == Cardinality(OnTarget)
            hi(lun) == (lun \div 256) % 256
            enc(lun) == IF lun < 256 THEN <<0, lun, 0, 0, 0, 0, 0, 0>>
                        ELSE <<IF (hi(lun) \div 64) % 2 = 1 THEN hi(lun) ELSE hi(lun) + 64,
                               lun % 256, 0, 0, 0, 0, 0, 0>>
        IN  IF sreq.cmd.xfer >= 16 /\ vreq.cdb[2] <= 2
            THEN /\ vreq.resp.status = GOOD
                 /\ Len(buf) = 8 + 8 * n
                 /\ SubSeq(buf, 1, 8) = <<0, 0, (8 * n) \div 256, (8 * n) % 256, 0, 0, 0, 0>>
                 /\ {SubSeq(buf, 8 * i + 1, 8 * i + 8) : i \in 1..n}
                        = {enc(key[2]) : key \in OnTarget}
            ELSE vreq.resp.status = CHECK_CONDITION /\ NoData

\* REPORT_LUNS listed a target with a LUN below 256 and one above.
C13_Witness ==
    /\ EmulatedGood(REPORT_LUNS)
    /\ {key[2] : key \in OnTarget} = {1, 258}
    /\ Len(vreq.data[1]) = 24

\* C14: for a target with LUN 0 and LUN 1, REPORT_LUNS always returns
\* BE32(0x10), four zero bytes, the entry of LUN 0, then the entry of LUN 1.
\* The code does not keep this: the entries come in the HashMap's order.
C14_ReportLunsAscending ==
    (EmulatedGood(REPORT_LUNS) /\ {key[2] : key \in OnTarget} = {0, 1}) =>
        vreq.data[1] = <<0, 0, 0, 16, 0, 0, 0, 0,
                         0, 0, 0, 0, 0, 0, 0, 0,
                         0, 1, 0, 0, 0, 0, 0, 0>>

\* A request that emulate_execute completed as a request to the LUN it
\* asked for, with a first iovec element that holds the whole payload.
LunRequestDone(op) ==
    /\ pc = "done"
    /\ sreq.cmd.command = op
    /\ ReqLun = devices[sreq.dev].lun
    /\ vreq.iovec = <<64>>

\* C15: READ_CAPACITY_10 with PMI = 1 or lba = 0 returns 8 bytes,
\* BE32(min(sectors, u32::MAX)) then BE32(512), for every sector count; with
\* PMI = 0 and lba # 0 it fails. The code does not keep this: a sector count
\* above u32::MAX is truncated, not clamped.
C15_ReadCapacity10Clamped ==
    LunRequestDone(READ_CAPACITY_10) =>
        LET c == vreq.cdb
            pmi == c[8] % 2 = 1
            lba_zero == c[2] = 0 /\ c[3] = 0 /\ c[4] = 0 /\ c[5] = 0
            sectors == devices[sreq.dev].disk_sectors
            clamped == IF SubSeq(sectors, 1, 4) = <<0, 0, 0, 0>>
                       THEN SubSeq(sectors, 5, 8)
                       ELSE <<255, 255, 255, 255>>
        IN  IF pmi \/ lba_zero
            THEN /\ vreq.resp.status = GOOD
                 /\ vreq.data[1] = clamped \o <<0, 0, 2, 0>>
            ELSE vreq.resp.status = CHECK_CONDITION /\ NoData

\* C16: SERVICE_ACTION_IN_16 with service action 0x10 returns 32 bytes,
\* BE64(sectors), BE32(512) and 20 zero bytes; with any other service action
\* it fails with CHECK_CONDITION and no data.
C16_ReadCapacity16 ==
    LunRequestDone(SERVICE_ACTION_IN_16) =>
        IF vreq.cdb[1] % 32 = 16
        THEN /\ vreq.resp.status = GOOD
             /\ vreq.data[1] = devices[sreq.dev].disk_sectors \o <<0, 0, 2, 0>>
                                  \o [i \in 1..20 |-> 0]
        ELSE vreq.resp.status = CHECK_CONDITION /\ NoData

\* READ CAPACITY (16) answered for a disk of more than u32::MAX sectors.
C16_Witness ==
    /\ LunRequestDone(SERVICE_ACTION_IN_16)
    /\ vreq.resp.status = GOOD
    /\ devices[sreq.dev].disk_sectors[4] = 1
    /\ Len(vreq.data[1]) = 32

\* ------------------------------------------- SCSI: the VPD pages in turn

\* Devices of both types, with the serial empty, short and longer than the
\* 32 bytes kept, and the device-id empty, short, longer than the 247 bytes
\* kept and of 256 bytes.
VpdDevs ==
    {[DiskDev(0, 0) EXCEPT !.scsi_type = t, !.serial = [i \in 1..sl |-> 48 + (i % 10)],
                           !.device_id = [i \in 1..dl |-> 97 + (i % 26)]] :
        t \in {SCSI_TYPE_DISK, SCSI_TYPE_ROM}, sl \in {0, 2, 33}, dl \in {0, 2, 248, 256}}

\* INQUIRY with EVPD = 1 for page 0x00, allocation length 255.
InitVpd ==
    /\ LifeInit
    /\ RamIdle
    /\ RestIdle
    /\ overflow_checks \in BOOLEAN
    /\ \E dev \in VpdDevs : devices = (<<0, 0>> :> dev)
    /\ dev_iter = << <<0, 0>> >>
    /\ vreq = Request(1, Cdb(INQUIRY, 1, \h00, 255, 0), LunField(0, 0, 0), <<64>>)
    /\ sreq = <<>>
    /\ pc = "lookup"
    /\ aio = AioEmpty
    /\ used_ring = <<>>

\* The guest reads the list of page 0x00 and asks for one of its pages.
NextPage ==
    /\ pc = "done"
    /\ vreq.tag = 1
    /\ vreq.resp.status = GOOD
    /\ \E i \in 5..Len(vreq.data[1]) :
          vreq' = Request(2, Cdb(INQUIRY, 1, vreq.data[1][i], 255, 0),
                          LunField(0, 0, 0), <<64>>)
    /\ sreq' = <<>>
    /\ pc' = "lookup"
    /\ UNCHANGED <<overflow_checks, devices, dev_iter, aio, used_ring>>
    /\ UNCHANGED lifeVars
    /\ UNCHANGED <<ramVars, restVars>>

NextVpd ==
    \/ GetDevice
    \/ NewRequest
    \/ EmulateExecute
    \/ NextPage

SpecVpd == InitVpd /\ [][NextVpd]_vars

\* C17: INQUIRY with EVPD = 1 and page 0x00 succeeds on every device, and so
\* does a following INQUIRY for each page it lists; the list holds 0x00 and
\* 0x83, holds 0x80 iff the serial is not empty, and holds 0xB0, 0xB1, 0xB2
\* iff the device is a DISK.
C17_ListedVpdPagesSucceed ==
    /\ pc \notin {"panic", "bad_cdb", "no_device"}
    /\ pc = "done" =>
          /\ vreq.resp.status = GOOD
          /\ vreq.tag = 1 =>
                LET buf == vreq.data[1]
                    list == {buf[i] : i \in 5..Len(buf)}
                    dev == devices[<<0, 0>>]
                IN  /\ buf[4] = Len(buf) - 4
                    /\ {0, 131} \subseteq list
                    /\ 128 \in list <=> dev.serial # <<>>
                    /\ \A p \in {176, 177, 178} :
                          p \in list <=> dev.scsi_type = SCSI_TYPE_DISK
                    /\ list \subseteq {0, 128, 131, 176, 177, 178}

\* A page listed by a disk with a serial has been read after page 0x00.
C17_Witness ==
    /\ pc = "done"
    /\ vreq.tag = 2
    /\ vreq.cdb[2] \in {128, 176, 177, 178}
    /\ vreq.resp.status = GOOD

\* C18: for every allocation length and every vendor, product and version
\* string, standard INQUIRY succeeds and returns min(xfer, 256) bytes with
\* buf[0] = type & 0x1F, buf[1] = 0x80 iff REMOVABLE, buf[2] = 5,
\* buf[3] = 0x12, buf[4] = len - 5 (31 when len <= 36), buf[7] = 0x12 and
\* vendor, product, version at [8..16], [16..32], [32..36], truncated to 8,
\* 16 and 4 bytes. The code does not keep this: it panics when the buffer
\* is shorter than the fields it writes or a string longer than its field.
C18_StandardInquiry ==
    (/\ pc \in {"done", "panic"}
     /\ sreq.cmd.command = INQUIRY
     /\ ReqLun = devices[sreq.dev].lun
     /\ vreq.cdb[1] = 0 /\ vreq.cdb[2] = 0
     /\ vreq.iovec = <<64>>) =>
        LET dev == devices[sreq.dev]
            len == IF sreq.cmd.xfer < 256 THEN sreq.cmd.xfer ELSE 256
            buf == vreq.data[1]
            field(str, width, k) == IF k <= Len(str) /\ k <= width THEN str[k] ELSE 0
            \* the byte expected at index i (from 0)
            expected(i) ==
                CASE i = 0 -> dev.scsi_type % 32
                  [] i = 1 -> IF Bit(dev.features, SCSI_DISK_F_REMOVABLE) THEN 128 ELSE 0
                  [] i = 2 -> 5
                  [] i = 3 -> 18
                  [] i = 4 -> IF len <= 36 THEN 31 ELSE len - 5
                  [] i = 7 -> 18
                  [] i \in 8..15 -> field(dev.vendor, 8, i - 7)
                  [] i \in 16..31 -> field(dev.product, 16, i - 15)
                  [] i \in 32..35 -> field(dev.version, 4, i - 31)
                  [] OTHER -> 0
        IN  /\ pc = "done"
            /\ vreq.resp.status = GOOD
            /\ Len(buf) = (IF len < 64 THEN len ELSE 64)
            /\ \A i \in 0..(Len(buf) - 1) : buf[i + 1] = expected(i)

\* C19: MODE_SENSE_10 (and MODE_SENSE) with page code 0x3F and page_control
\* other than 3 succeeds; after the 8-byte (4-byte) header and the 8-byte
\* block descriptor, present exactly when the header announces it, the buffer
\* holds page 0x01 in 12 bytes, then page 0x08 in 20 bytes, and nothing
\* else; the Mode Data Length is BE16(total - 2) (total - 1 in one byte).
C19_ModeSenseAllPages ==
    \A op \in {MODE_SENSE, MODE_SENSE_10} :
        (/\ pc \in {"done", "panic"}
         /\ sreq.cmd.command = op
         /\ ReqLun = devices[sreq.dev].lun
         /\ vreq.cdb[2] % 64 = \h3f /\ vreq.cdb[2] \div 64 # 3
         /\ vreq.iovec = <<64>>) =>
            LET buf == vreq.data[1]
                total == Len(buf)
                hdr == IF op = MODE_SENSE THEN 4 ELSE 8
                desc == IF total >= hdr THEN buf[hdr] ELSE 0
                pages == hdr + desc
            IN  /\ pc = "done"
                /\ vreq.resp.status = GOOD
                /\ desc \in {0, 8}
                /\ total = pages + 12 + 20
                /\ buf[pages + 1] = \h01 /\ buf[pages + 2] = 10
                /\ buf[pages + 13] = \h08 /\ buf[pages + 14] = 18
                /\ IF op = MODE_SENSE
                   THEN buf[1] = total - 1
                   ELSE buf[1] = (total - 2) \div 256 /\ buf[2] = (total - 2) % 256

\* MODE_SENSE_10 for all pages has answered a disk with a block descriptor.
C19_Witness ==
    /\ LunRequestDone(MODE_SENSE_10)
    /\ vreq.cdb[2] = \h3f
    /\ vreq.resp.status = GOOD
    /\ Len(vreq.data[1]) = 48
    /\ vreq.data[1][8] = 8

\* ------------------------------------------------ machine: the RAM ranges

\* LayoutEntryType as usize: the index of each entry in MEM_LAYOUT.
LayoutEntryType ==
    [MemBelow4g |-> 0, PcieMmio |-> 1, PcieEcam |-> 2, Mmio |-> 3,
     IoApic |-> 4, LocalApic |-> 5, MemAbove4g |-> 6]

\* MEM_LAYOUT: (base, size) per index, each a u64 of eight big-endian bytes.
MEM_LAYOUT ==
    [i \in 0..6 |->
        CASE i = 0 -> << <<0, 0, 0, 0, \h00, 0, 0, 0>>, <<0, 0, 0, 0, \hc0, 0, 0, 0>> >>
          [] i = 1 -> << <<0, 0, 0, 0, \hb0, 0, 0, 0>>, <<0, 0, 0, 0, \h10, 0, 0, 0>> >>
          [] i = 2 -> << <<0, 0, 0, 0, \hc0, 0, 0, 0>>, <<0, 0, 0, 0, \h30, 0, 0, 0>> >>
          [] i = 3 -> << <<0, 0, 0, 0, \hf0, \h10, 0, 0>>, <<0, 0, 0, 0, 0, 0, 2, 0>> >>
          [] i = 4 -> << <<0, 0, 0, 0, \hfe, \hc0, 0, 0>>, <<0, 0, 0, 0, 0, \h10, 0, 0>> >>
          [] i = 5 -> << <<0, 0, 0, 0, \hfe, \he0, 0, 0>>, <<0, 0, 0, 0, 0, \h10, 0, 0>> >>
          [] i = 6 -> << <<0, 0, 0, 1, \h00, 0, 0, 0>>, <<0, 0, 0, \h80, 0, 0, 0, 0>> >>]

\* a + b on u64: the eight bytes of the sum and whether it overflowed.
RECURSIVE u64_add_from(_, _, _, _)
u64_add_from(a, b, i, carry) ==
    IF i = 0 THEN [val |-> a, overflow |-> carry = 1]
    ELSE LET t == a[i] + b[i] + carry
         IN  u64_add_from([a EXCEPT ![i] = t % 256], b, i - 1, t \div 256)

u64_add(a, b) == u64_add_from(a, b, 8, 0)

\* a - b on u64: the eight bytes of the difference and whether it
\* underflowed.
RECURSIVE u64_sub_from(_, _, _, _)
u64_sub_from(a, b, i, borrow) ==
    IF i = 0 THEN [val |-> a, overflow |-> borrow = 1]
    ELSE LET t == a[i] - b[i] - borrow
         IN  u64_sub_from([a EXCEPT ![i] = (t + 256) % 256], b, i - 1,
                          IF t < 0 THEN 1 ELSE 0)

u64_sub(a, b) == u64_sub_from(a, b, 8, 0)

\* a > b on u64.
u64_gt(a, b) ==
    \E i \in 1..8 : a[i] > b[i] /\ \A j \in 1..(i - 1) : a[j] = b[j]

\* std::cmp::min on u64.
u64_min(a, b) == IF u64_gt(a, b) THEN b ELSE a

\* A plausible slip: the gap's first byte counted as above the gap.
arch_ram_ranges_gap_inclusive(size) ==
    LET below == MEM_LAYOUT[LayoutEntryType.MemBelow4g]
        gap_start == u64_add(below[1], below[2]).val
    IN  << <<below[1], u64_min(gap_start, size)>> >>
        \o (IF ~u64_gt(gap_start, size)
            THEN << <<MEM_LAYOUT[LayoutEntryType.MemAbove4g][1],
                      u64_sub(size, gap_start).val>> >>
            ELSE <<>>)

\* StdMachine::arch_ram_ranges(mem_size): the vector of (start_addr, size).
arch_ram_ranges(size) ==
    LET gap_start == u64_add(MEM_LAYOUT[LayoutEntryType.MemBelow4g][1],
                             MEM_LAYOUT[LayoutEntryType.MemBelow4g][2]).val
        first == << <<0, 0, 0, 0, 0, 0, 0, 0>>, u64_min(gap_start, size)>>
    IN  IF u64_gt(size, gap_start)
        THEN LET gap_end == MEM_LAYOUT[LayoutEntryType.MemAbove4g][1]
             IN  <<first, <<gap_end, u64_sub(size, gap_start).val>> >>
        ELSE <<first>>

\* The memory sizes tried: around the gap, around 4 GiB and up to u64::MAX.
MemSizes ==
    {<<b1, b1, b1, b4, b5, b6, b6, b8>> :
        b1 \in {\h00, \hff}, b4 \in {0, 1, 2}, b5 \in {\h00, \h40, \hbf, \hc0, \hc1, \hff},
        b6 \in {\h00, \hff}, b8 \in {\h00, \h01, \hff}}

InitRam ==
    /\ LifeInit
    /\ ScsiIdle
    /\ mem_size \in MemSizes
    /\ ranges = <<>>
    /\ RestIdle

ArchRamRanges ==
    /\ ranges = <<>>
    /\ ranges' = arch_ram_ranges(mem_size)
    /\ UNCHANGED <<mem_size, lifeVars, scsiVars, restVars>>

NextRam == ArchRamRanges

SpecRam == InitRam /\ [][NextRam]_vars

\* C20: for every mem_size, arch_ram_ranges returns the one range
\* (0, mem_size) when mem_size <= 0xC000_0000, and the two ranges
\* (0, 0xC000_0000) and (0x1_0000_0000, mem_size - 0xC000_0000) otherwise;
\* the sizes of the ranges sum to mem_size.
C20_RamRangesAroundGap ==
    ranges # <<>> =>
        LET zero == <<0, 0, 0, 0, 0, 0, 0, 0>>
            gap == <<0, 0, 0, 0, \hc0, 0, 0, 0>>
            four_gib == <<0, 0, 0, 1, 0, 0, 0, 0>>
            sum == IF Len(ranges) = 1 THEN [val |-> ranges[1][2], overflow |-> FALSE]
                   ELSE u64_add(ranges[1][2], ranges[2][2])
        IN  /\ IF u64_gt(mem_size, gap)
               THEN /\ Len(ranges) = 2
                    /\ ranges[1] = <<zero, gap>>
                    /\ ranges[2][1] = four_gib
                    \* size + 0xC000_0000 = mem_size
                    /\ u64_add(ranges[2][2], gap) = [val |-> mem_size, overflow |-> FALSE]
               ELSE ranges = << <<zero, mem_size>> >>
            /\ sum = [val |-> mem_size, overflow |-> FALSE]

\* arch_ram_ranges has split 4 GiB of memory around the gap.
C20_Witness ==
    /\ mem_size = <<0, 0, 0, 1, 0, 0, 0, 0>>
    /\ Len(ranges) = 2
    /\ ranges[2][2] = <<0, 0, 0, 0, \h40, 0, 0, 0>>

\* Two half-open ranges (base, size) of u64 share no address.
ranges_disjoint(r, w) ==
    LET r_end == u64_add(r[1], r[2])
        w_end == u64_add(w[1], w[2])
        zero == <<0, 0, 0, 0, 0, 0, 0, 0>>
    IN  \/ r[2] = zero
        \/ w[2] = zero
        \/ (~r_end.overflow /\ ~u64_gt(r_end.val, w[1]))
        \/ (~w_end.overflow /\ ~u64_gt(w_end.val, r[1]))

\* C21: for every mem_size, no RAM range returned by arch_ram_ranges
\* intersects a reserved window of MEM_LAYOUT (PcieEcam, PcieMmio, Mmio,
\* IoApic, LocalApic: the entries 1 to 5). The code does not keep this: the
\* RAM below 4 GiB runs up to 0xC000_0000, across PcieEcam at 0xB000_0000.
C21_RamAvoidsReservedWindows ==
    \A k \in 1..Len(ranges) : \A i \in 1..5 : ranges_disjoint(ranges[k], MEM_LAYOUT[i])

\* ------------------------------------------------- machine: port I/O

\* The ports followed: 0x61 and its two neighbours.
Ports == {\h60, \h61, \h62}

\* AddressSpace::read(dst, addr, count) on sys_io: fails unless a region is
\* mapped behind each port of [addr, addr + count).
sys_io_read(io, addr, count) ==
    IF \A q \in addr..(addr + count - 1) : q \in DOMAIN io
    THEN [ok |-> TRUE, data |-> [i \in 1..count |-> io[addr + i - 1]] \o <<>>]
    ELSE [ok |-> FALSE, data |-> <<>>]

\* AddressSpace::write(src, addr, count) on sys_io.
sys_io_write(io, addr, data) ==
    IF \A q \in addr..(addr + Len(data) - 1) : q \in DOMAIN io
    THEN [ok |-> TRUE,
          io |-> [q \in DOMAIN io |->
                    IF q \in addr..(addr + Len(data) - 1) THEN data[q - addr + 1]
                    ELSE io[q]]]
    ELSE [ok |-> FALSE, io |-> io]

\* A plausible slip: port 0x61 read from sys_io like any other port.
pio_in_through_sys_io(io, addr, data) ==
    LET r == sys_io_read(io, addr, Len(data))
    IN  [panic |-> FALSE, ok |-> r.ok, data |-> IF r.ok THEN r.data ELSE data,
         dispatched |-> TRUE]

\* StdMachine::pio_in(addr, data): the return value, the buffer afterwards,
\* whether sys_io was asked, and whether the call panicked.
pio_in(io, addr, data) ==
    IF addr = \h61
    THEN IF data = <<>>
         THEN [panic |-> TRUE, ok |-> FALSE, data |-> data, dispatched |-> FALSE]
         ELSE [panic |-> FALSE, ok |-> TRUE, data |-> [data EXCEPT ![1] = \h20],
               dispatched |-> FALSE]
    ELSE LET r == sys_io_read(io, addr, Len(data))
         IN  [panic |-> FALSE, ok |-> r.ok, data |-> IF r.ok THEN r.data ELSE data,
              dispatched |-> TRUE]

\* StdMachine::pio_out(addr, data)
pio_out(io, addr, data) == sys_io_write(io, addr, data)

\* Any set of the ports is mapped, each with a zero byte behind it.
InitPio ==
    /\ Idle_pio
    /\ \E mapped \in SUBSET Ports : sys_io = [q \in mapped |-> 0]
    /\ pio_calls = <<>>

PioIn ==
    /\ Len(pio_calls) < MaxPio
    /\ \E addr \in Ports, data \in {<<>>, <<0>>, <<0, 0>>} :
          LET r == pio_in(sys_io, addr, data)
          IN  pio_calls' = Append(pio_calls,
                                  [op |-> "pio_in", addr |-> addr, len |-> Len(data),
                                   panic |-> r.panic, ok |-> r.ok, data |-> r.data,
                                   dispatched |-> r.dispatched])
    /\ UNCHANGED <<sys_io, frame_pio>>

PioOut ==
    /\ Len(pio_calls) < MaxPio
    /\ \E addr \in Ports, data \in {<<\h01>>, <<\hff, \hfe>>} :
          LET r == pio_out(sys_io, addr, data)
          IN  /\ sys_io' = r.io
              /\ pio_calls' = Append(pio_calls,
                                     [op |-> "pio_out", addr |-> addr, len |-> Len(data),
                                      panic |-> FALSE, ok |-> r.ok, data |-> data,
                                      dispatched |-> TRUE])
    /\ UNCHANGED frame_pio

NextPio == PioIn \/ PioOut

SpecPio == InitPio /\ [][NextPio]_vars

\* C22: pio_in at port 0x61 with a 1-byte buffer returns true with
\* buf[0] = 0x20, after any earlier pio_out / pio_in calls (writes to port
\* 0x61 included) and whatever regions sys_io maps; the read never reaches
\* sys_io.
C22_Port61ReadsHex20 ==
    \A i \in 1..Len(pio_calls) :
        LET c == pio_calls[i]
        IN  (c.op = "pio_in" /\ c.addr = \h61 /\ c.len = 1) =>
                /\ ~c.panic
                /\ c.ok
                /\ c.data = <<\h20>>
                /\ ~c.dispatched

\* Port 0x61 was read after a write that reached a region mapped at 0x61.
C22_Witness ==
    \E i, j \in 1..Len(pio_calls) :
        /\ i < j
        /\ pio_calls[i].op = "pio_out" /\ pio_calls[i].addr = \h61 /\ pio_calls[i].ok
        /\ sys_io[\h61] = \h01
        /\ pio_calls[j].op = "pio_in" /\ pio_calls[j].addr = \h61 /\ pio_calls[j].len = 1

\* ------------------------------------------------- machine: realize

\* StdMachine::realize(vm, vm_config, fds): the fallible steps in the order
\* the code takes them, init_pci_host unfolded; each is followed by `?`.
realize_plan(vm_config) ==
    << [op |-> "init_memory", arg |-> <<>>],
       [op |-> "create_irq_chip", arg |-> <<>>] >>
    \o ([cpu_id \in 1..vm_config.nr_cpus |->
            [op |-> "create_vcpu", arg |-> <<cpu_id - 1>>]] \o <<>>)
    \o << [op |-> "add_subregion", arg |-> <<"PcieEcam">>],
          [op |-> "add_subregion", arg |-> <<\h0c, \hf8>>],
          [op |-> "add_subregion", arg |-> <<\h0c, \hfc>>],
          [op |-> "Mch::realize", arg |-> <<>>],
          [op |-> "add_devices", arg |-> <<vm_config.serial>>],
          [op |-> "load_boot_source", arg |-> <<>>],
          [op |-> "init_vcpu", arg |-> <<vm_config.nr_cpus>>],
          [op |-> "create_pit2", arg |-> <<"KVM_PIT_SPEAKER_DUMMY">>],
          [op |-> "set_tss_address", arg |-> <<\hff, \hfb, \hd0, \h00>>],
          [op |-> "register_power_event", arg |-> <<>>] >>

\* realize is called with a machine of 0 to 2 CPUs, with or without serial.
InitRealize ==
    /\ Idle_realize
    /\ \E nr_cpus \in 0..2, serial \in BOOLEAN :
          realize = [vm_config |-> [nr_cpus |-> nr_cpus, serial |-> serial],
                     steps |-> <<>>, failed |-> <<>>, result |-> "Running"]

\* The next step of realize: it succeeds and is added to the steps done, or
\* it fails and `?` returns the error.
RealizeStep ==
    /\ realize # <<>>
    /\ realize.result = "Running"
    /\ LET plan == realize_plan(realize.vm_config)
           k == Len(realize.steps) + 1
       IN  \E ok \in BOOLEAN :
              realize' =
                  IF ~ok
                  THEN [realize EXCEPT !.result = "Err", !.failed = <<plan[k]>>]
                  ELSE [realize EXCEPT !.steps = Append(@, plan[k]),
                                       !.result = IF k = Len(plan) THEN "Ok" ELSE "Running"]
    /\ UNCHANGED frame_realize

NextRealize == RealizeStep

SpecRealize == InitRealize /\ [][NextRealize]_vars

\* C23: in every successful realize the steps come in the order guest RAM,
\* IRQ chip, PIT (speaker-dummy), one vCPU descriptor per CPU id, PCI host
\* and MCH, devices, kernel load, TSS address 0xFFFB_D000, power button;
\* when a step fails realize returns an error and does none of the later
\* steps. The code does not keep the order: it creates the PIT after the
\* vCPU descriptors, the PCI host, the devices and the kernel load.
C23_RealizeStepsInOrder ==
    realize # <<>> =>
        LET steps == realize.steps
            Rank(op) ==
                CASE op = "init_memory" -> 1
                  [] op = "create_irq_chip" -> 2
                  [] op = "create_pit2" -> 3
                  [] op = "create_vcpu" -> 4
                  [] op \in {"add_subregion", "Mch::realize"} -> 5
                  [] op = "add_devices" -> 6
                  [] op = "load_boot_source" -> 7
                  [] op = "set_tss_address" -> 8
                  [] op = "register_power_event" -> 9
                  [] OTHER -> 0
            ranked == {i \in 1..Len(steps) : Rank(steps[i].op) # 0}
        IN  /\ realize.result = "Ok" =>
                /\ \A i, j \in ranked :
                      Rank(steps[i].op) < Rank(steps[j].op) => i < j
                /\ \A r \in 1..9 : r # 4 => \E i \in ranked : Rank(steps[i].op) = r
                /\ \A id \in 0..(realize.vm_config.nr_cpus - 1) :
                      \E i \in ranked : steps[i] = [op |-> "create_vcpu", arg |-> <<id>>]
                /\ \A i \in ranked :
                      /\ steps[i].op = "set_tss_address" =>
                            steps[i].arg = <<\hff, \hfb, \hd0, \h00>>
                      /\ steps[i].op = "create_pit2" =>
                            steps[i].arg = <<"KVM_PIT_SPEAKER_DUMMY">>
            /\ realize.result = "Err" =>
                /\ realize.failed # <<>>
                /\ \A i \in 1..Len(steps) : steps[i] # realize.failed[1]

\* ------------------------------------------- configuration: the drives

\* The number of calls on the drive configuration followed.
MaxDriveCalls == 3

MAX_IOPS == 1000000
MIN_QUEUE_SIZE_BLK == 2
MAX_QUEUE_SIZE_BLK == 1024

\* A plausible slip: insert without looking for the id first.
add_drive_overwrites(d, drive_conf) ==
    [ok |-> TRUE, drives |-> (drive_conf.id :> drive_conf) @@ d]

\* VmConfig::add_drive_with_config(drive_conf) on the drives d.
add_drive_with_config(d, drive_conf) ==
    LET drive_id == drive_conf.id
    IN  IF drive_id \notin DOMAIN d
        THEN [ok |-> TRUE, drives |-> (drive_id :> drive_conf) @@ d]
        ELSE [ok |-> FALSE, drives |-> d]

\* VmConfig::del_drive_by_id(drive_id): Ok(path_on_host) or the error.
del_drive_by_id(d, drive_id) ==
    IF drive_id \in DOMAIN d
    THEN [ok |-> TRUE, ret |-> <<d[drive_id].path_on_host>>,
          drives |-> [k \in DOMAIN d \ {drive_id} |-> d[k]]]
    ELSE [ok |-> FALSE, ret |-> <<>>, drives |-> d]

\* BlkDevConfig::check(), with DriveConfig::check() on its fake_drive and
\* check_path() (path_ok: what the host's file system answers). Options are
\* <<>> for None and <<x>> for Some(x); the default queue size is valid.
blk_check(cfg, path_ok) ==
    LET queue_size_ok ==
            \/ cfg.queue_size = <<>>
            \/ LET n == cfg.queue_size[1]
               IN  /\ ~(n <= MIN_QUEUE_SIZE_BLK \/ n > MAX_QUEUE_SIZE_BLK)
                   /\ \E e \in 0..10 : n = 2 ^ e
        fake_drive_ok ==
            /\ ~(cfg.iops # <<>> /\ cfg.iops[1] > MAX_IOPS)
            /\ ~(cfg.aio = <<"native">> /\ ~cfg.direct)
            /\ ~(cfg.aio = <<>> /\ cfg.direct)
    IN  queue_size_ok /\ fake_drive_ok /\ path_ok

\* A plausible slip: the drive looked up and left in the map.
parse_blk_keeps_drive(d, opts, path_ok) ==
    IF ~opts.pci_ok \/ opts.drive = <<>> \/ opts.id = <<>>
    THEN [ok |-> FALSE, cfg |-> <<>>, drives |-> d]
    ELSE IF opts.drive[1] \notin DOMAIN d
    THEN [ok |-> FALSE, cfg |-> <<>>, drives |-> d]
    ELSE LET drive_arg == d[opts.drive[1]]
             blkdevcfg == [id |-> opts.id[1], queue_size |-> opts.queue_size,
                           path_on_host |-> drive_arg.path_on_host,
                           read_only |-> drive_arg.read_only,
                           direct |-> drive_arg.direct,
                           iops |-> drive_arg.iops, aio |-> drive_arg.aio]
         IN  IF blk_check(blkdevcfg, path_ok)
             THEN [ok |-> TRUE, cfg |-> <<blkdevcfg>>, drives |-> d]
             ELSE [ok |-> FALSE, cfg |-> <<>>, drives |-> d]

\* parse_blk(vm_config, drive_config, queues_auto) on the drives d, with the
\* options that CmdParser found in drive_config (opts) and the outcome of
\* pci_args_check (opts.pci_ok): the result and the drives afterwards.
parse_blk(d, opts, path_ok) ==
    IF ~opts.pci_ok \/ opts.drive = <<>> \/ opts.id = <<>>
    THEN [ok |-> FALSE, cfg |-> <<>>, drives |-> d]
    \* vm_config.drives.remove(&blkdrive)
    ELSE IF opts.drive[1] \notin DOMAIN d
    THEN [ok |-> FALSE, cfg |-> <<>>, drives |-> d]
    ELSE LET blkdrive == opts.drive[1]
             drive_arg == d[blkdrive]
             removed == [k \in DOMAIN d \ {blkdrive} |-> d[k]]
             blkdevcfg == [id |-> opts.id[1], queue_size |-> opts.queue_size,
                           path_on_host |-> drive_arg.path_on_host,
                           read_only |-> drive_arg.read_only,
                           direct |-> drive_arg.direct,
                           iops |-> drive_arg.iops, aio |-> drive_arg.aio]
         IN  IF blk_check(blkdevcfg, path_ok)
             THEN [ok |-> TRUE, cfg |-> <<blkdevcfg>>, drives |-> removed]
             ELSE [ok |-> FALSE, cfg |-> <<>>, drives |-> removed]

\* VmConfig::default(): no drive.
InitDrive ==
    /\ Idle_drive
    /\ drives = <<>>
    /\ config_calls = <<>>

\* add_drive_with_config with one of two ids and a config that passes the
\* checks, or one that does not (iops too high).
AddDrive ==
    /\ Len(config_calls) < MaxDriveCalls
    /\ \E id \in {"drive-0", "drive-1"},
          profile \in {[path_on_host |-> "/p0", read_only |-> FALSE, direct |-> TRUE,
                        iops |-> <<>>, aio |-> <<"native">>],
                       [path_on_host |-> "/p1", read_only |-> TRUE, direct |-> FALSE,
                        iops |-> <<200>>, aio |-> <<>>],
                       [path_on_host |-> "/p0", read_only |-> TRUE, direct |-> TRUE,
                        iops |-> <<MAX_IOPS + 1>>, aio |-> <<"io_uring">>]} :
          LET drive_conf == [id |-> id] @@ profile
              r == add_drive_with_config(drives, drive_conf)
          IN  /\ drives' = r.drives
              /\ config_calls' = Append(config_calls,
                    [op |-> "add_drive_with_config", arg |-> drive_conf, ok |-> r.ok,
                     ret |-> <<>>, before |-> drives, after |-> r.drives])
    /\ UNCHANGED frame_drive

DelDrive ==
    /\ Len(config_calls) < MaxDriveCalls
    /\ \E id \in {"drive-0", "drive-1"} :
          LET r == del_drive_by_id(drives, id)
          IN  /\ drives' = r.drives
              /\ config_calls' = Append(config_calls,
                    [op |-> "del_drive_by_id", arg |-> id, ok |-> r.ok,
                     ret |-> r.ret, before |-> drives, after |-> r.drives])
    /\ UNCHANGED frame_drive

\* The options of a virtio-blk device: drive=, id=, queue-size= and what
\* pci_args_check makes of bus= and addr=.
BlkOpts(drive, id, queue_size, pci_ok) ==
    [drive |-> drive, id |-> id, queue_size |-> queue_size, pci_ok |-> pci_ok]

\* parse_blk with a good option string for either drive, or one with a bad
\* queue size, bad PCI arguments, no id= or no drive=.
ParseBlk ==
    /\ Len(config_calls) < MaxDriveCalls
    /\ \E opts \in {BlkOpts(<<"drive-0">>, <<"blk">>, <<>>, TRUE),
                      BlkOpts(<<"drive-1">>, <<"blk">>, <<512>>, TRUE),
                      BlkOpts(<<"drive-0">>, <<"blk">>, <<3>>, TRUE),
                      BlkOpts(<<"drive-0">>, <<"blk">>, <<>>, FALSE),
                      BlkOpts(<<"drive-0">>, <<>>, <<>>, TRUE),
                      BlkOpts(<<>>, <<"blk">>, <<>>, TRUE)},
          path_ok \in BOOLEAN :
          LET r == parse_blk(drives, opts, path_ok)
          IN  /\ drives' = r.drives
              /\ config_calls' = Append(config_calls,
                    [op |-> "parse_blk", arg |-> opts, ok |-> r.ok,
                     ret |-> r.cfg, before |-> drives, after |-> r.drives])
    /\ UNCHANGED frame_drive

NextDrive == AddDrive \/ DelDrive \/ ParseBlk

SpecDrive == InitDrive /\ [][NextDrive]_vars

\* C24: after any sequence of add_drive_with_config and del_drive_by_id
\* calls, drives holds at most one config per id and every stored config's
\* id equals its key; adding a present id fails and leaves the entry as it
\* was; deleting an absent id fails and changes nothing; deleting a present
\* id removes exactly that entry and returns its host path.
C24_DrivesKeyedById ==
    /\ \A k \in DOMAIN drives : drives[k].id = k
    /\ \A i \in 1..Len(config_calls) :
          LET c == config_calls[i]
          IN  /\ (c.op = "add_drive_with_config" /\ c.arg.id \in DOMAIN c.before) =>
                    ~c.ok /\ c.after = c.before
              /\ (c.op = "add_drive_with_config" /\ c.arg.id \notin DOMAIN c.before) =>
                    /\ c.ok
                    /\ DOMAIN c.after = DOMAIN c.before \cup {c.arg.id}
                    /\ c.after[c.arg.id] = c.arg
                    /\ \A k \in DOMAIN c.before : c.after[k] = c.before[k]
              /\ (c.op = "del_drive_by_id" /\ c.arg \notin DOMAIN c.before) =>
                    ~c.ok /\ c.after = c.before
              /\ (c.op = "del_drive_by_id" /\ c.arg \in DOMAIN c.before) =>
                    /\ c.ok
                    /\ c.ret = <<c.before[c.arg].path_on_host>>
                    /\ DOMAIN c.after = DOMAIN c.before \ {c.arg}
                    /\ \A k \in DOMAIN c.after : c.after[k] = c.before[k]

\* An id was added, added again in vain with another config, then deleted.
C24_Witness ==
    /\ Len(config_calls) = 3
    /\ config_calls[1].op = "add_drive_with_config" /\ config_calls[1].ok
    /\ config_calls[2].op = "add_drive_with_config" /\ ~config_calls[2].ok
    /\ config_calls[2].arg # config_calls[1].arg
    /\ config_calls[3].op = "del_drive_by_id" /\ config_calls[3].ok
    /\ config_calls[3].ret = <<config_calls[1].arg.path_on_host>>

\* C25: parse_blk succeeds only if the drive named by drive= is in drives;
\* a successful parse_blk removes that drive and copies its path, read_only,
\* direct, iops and aio into the BlkDevConfig it returns, so a second
\* parse_blk naming the same drive fails, and so does a parse_blk naming a
\* drive that was never added.
C25_ParseBlkTakesTheDrive ==
    \A i \in 1..Len(config_calls) :
        LET c == config_calls[i]
        IN  c.op = "parse_blk" =>
            /\ c.ok =>
                /\ c.arg.drive # <<>>
                /\ c.arg.drive[1] \in DOMAIN c.before
                /\ DOMAIN c.after = DOMAIN c.before \ {c.arg.drive[1]}
                /\ \A k \in DOMAIN c.after : c.after[k] = c.before[k]
                /\ LET drive_arg == c.before[c.arg.drive[1]]
                       cfg == c.ret[1]
                   IN  /\ cfg.path_on_host = drive_arg.path_on_host
                       /\ cfg.read_only = drive_arg.read_only
                       /\ cfg.direct = drive_arg.direct
                       /\ cfg.iops = drive_arg.iops
                       /\ cfg.aio = drive_arg.aio
            /\ (c.arg.drive # <<>> /\ c.arg.drive[1] \notin DOMAIN c.before) => ~c.ok
            \* right after a successful parse_blk, the same drive again
            /\ (i > 1 /\ config_calls[i - 1].op = "parse_blk" /\ config_calls[i - 1].ok
                      /\ config_calls[i - 1].arg.drive = c.arg.drive) => ~c.ok
            \* a drive that no earlier call added
            /\ (\A j \in 1..(i - 1) :
                    config_calls[j].op = "add_drive_with_config" =>
                        <<config_calls[j].arg.id>> # c.arg.drive) => ~c.ok

\* A drive was added, taken by parse_blk, and asked for a second time.
C25_Witness ==
    /\ Len(config_calls) = 3
    /\ config_calls[1].op = "add_drive_with_config" /\ config_calls[1].ok
    /\ config_calls[2].op = "parse_blk" /\ config_calls[2].ok
    /\ config_calls[2].ret[1].path_on_host = config_calls[1].arg.path_on_host
    /\ config_calls[3].op = "parse_blk" /\ ~config_calls[3].ok
    /\ config_calls[3].arg = config_calls[2].arg

\* C26: every response completed by emulate_execute, on success and on
\* failure, carries response = VIRTIO_SCSI_S_OK, status GOOD or
\* CHECK_CONDITION and sense_len = 18; a reported sense is in fixed format
\* (sense[0] = 0x70, sense[2] = key, sense[7] = 10, sense[12] = asc,
\* sense[13] = ascq) and every CHECK_CONDITION carries a sense code. The code
\* does not keep this: sense_len is only written together with a sense.
C26_ResponseCarriesSenseLen ==
    pc = "done" =>
        LET resp == vreq.resp
            reported == resp.sense # Zeros(SCSI_SENSE_LEN)
        IN  /\ resp.response = VIRTIO_SCSI_S_OK
            /\ resp.status \in {GOOD, CHECK_CONDITION}
            /\ resp.sense_len = 18
            /\ reported =>
                  /\ resp.sense[1] = \h70
                  /\ resp.sense[8] = 10
                  /\ \E s \in {SCSI_SENSE_NO_SENSE, SCSI_SENSE_INVALID_OPCODE,
                               SCSI_SENSE_INVALID_FIELD, SCSI_SENSE_LUN_NOT_SUPPORTED} :
                        RespSense = SenseTriple(s)
                  /\ \A i \in (1..SCSI_SENSE_LEN) \ {1, 3, 8, 13, 14} : resp.sense[i] = 0
            /\ resp.status = CHECK_CONDITION => reported

\* ------------------------------------------- SCSI: sense codes of failures

\* C27: a failing emulated command reports the sense code of its failure:
\* TEST_UNIT_READY on a device without a backing file completes with
\* CHECK_CONDITION and a NOT_READY sense (key 0x02); MODE_SENSE and
\* MODE_SENSE_10 with page_control = 3 complete with CHECK_CONDITION and
\* SAVING_PARAMS_NOT_SUPPORTED (05/39/00). The code does not keep this:
\* every failure of a supported command is reported as INVALID_FIELD.
C27_FailureSenseCodes ==
    /\ (LunRequestDone(TEST_UNIT_READY) /\ ~devices[sreq.dev].disk_image) =>
           /\ vreq.resp.status = CHECK_CONDITION
           /\ vreq.resp.sense[3] = \h02
    /\ ((LunRequestDone(MODE_SENSE) \/ LunRequestDone(MODE_SENSE_10))
            /\ vreq.cdb[2] \div 64 = 3) =>
           /\ vreq.resp.status = CHECK_CONDITION
           /\ RespSense = <<ILLEGAL_REQUEST, \h39, \h00>>

\* ------------------------------------------ SCSI: scattering the response

\* C30: when an emulated command returns a non-empty buffer, the bytes
\* written into the iovec elements, concatenated in order, are the first
\* min(len(outbuf), total iovec capacity) bytes of outbuf, no element gets
\* more than its iov_len, resid is 0 and the request is completed once. The
\* code does not keep this: every element receives the start of outbuf.
C30_ScatterOverIovec ==
    pc = "done" =>
        LET r == emulate_result(sreq.cmd, devices[sreq.dev], ReqLun,
                                devices[sreq.dev].lun)
            n == Len(vreq.iovec)
            capacity[i \in 0..n] == IF i = 0 THEN 0 ELSE capacity[i - 1] + vreq.iovec[i]
            written[i \in 0..n] == IF i = 0 THEN <<>> ELSE written[i - 1] \o vreq.data[i]
        IN  (r.result.tag = "Ok" /\ r.result.buf # <<>>) =>
                /\ written[n] = SubSeq(r.result.buf, 1, Min(Len(r.result.buf), capacity[n]))
                /\ \A i \in 1..n : Len(vreq.data[i]) <= vreq.iovec[i]
                /\ vreq.resp.resid = 0
                /\ vreq.completions = 1

\* ------------------------------------------- lifecycle: concurrent callers

\* A machine that was started, and three threads about to call into it:
\* thread 1 calls destroy, the others call pause or resume.
InitConc ==
    /\ Idle_threads
    /\ vm_state \in {"Running", "Paused"}
    /\ events = <<>>
    /\ power_button = 0
    /\ \E op2, op3 \in {"pause", "resume"} :
          threads = [t \in 1..3 |->
                        [op |-> IF t = 1 THEN "destroy" ELSE IF t = 2 THEN op2 ELSE op3,
                         pc |-> "call", vmstate |-> <<>>, ret |-> <<>>]]

\* StdMachine::destroy, first block: locks vm_state, copies the state and
\* unlocks.
DestroyRead(t) ==
    /\ threads[t].op = "destroy" /\ threads[t].pc = "call"
    /\ threads' = [threads EXCEPT ![t].vmstate = <<vm_state>>, ![t].pc = "notify"]
    /\ UNCHANGED <<vm_state, events, power_button, frame_threads>>

\* StdMachine::destroy, the call of notify_lifecycle(vmstate, Shutdown): locks
\* vm_state again and transfers; returns false when the transfer is refused.
DestroyTransfer(t) ==
    /\ threads[t].op = "destroy" /\ threads[t].pc = "notify"
    /\ LET r == notify_lifecycle(vm_state, threads[t].vmstate[1], "Shutdown")
       IN  /\ vm_state' = r.state
           /\ threads' = IF r.ok THEN [threads EXCEPT ![t].pc = "write"]
                         ELSE [threads EXCEPT ![t].pc = "returned", ![t].ret = <<FALSE>>]
    /\ UNCHANGED <<events, power_button, frame_threads>>

\* StdMachine::destroy, the end: power_button.write(1) and return true.
DestroyWrite(t) ==
    /\ threads[t].op = "destroy" /\ threads[t].pc = "write"
    /\ power_button' = power_button + 1
    /\ threads' = [threads EXCEPT ![t].pc = "returned", ![t].ret = <<TRUE>>]
    /\ UNCHANGED <<vm_state, events, frame_threads>>

\* StdMachine::pause or StdMachine::resume called by thread t: the
\* transition under the vm_state lock, then the event.
Transition(t) ==
    /\ threads[t].op \in {"pause", "resume"} /\ threads[t].pc = "call"
    /\ LET r == IF threads[t].op = "pause" THEN pause_result(vm_state)
                ELSE resume_result(vm_state)
       IN  /\ vm_state' = r.state
           /\ events' = events \o r.ev
           /\ threads' = [threads EXCEPT ![t].pc = "returned", ![t].ret = <<r.ret>>]
    /\ UNCHANGED <<power_button, frame_threads>>

NextConc ==
    \E t \in 1..3 :
        \/ DestroyRead(t)
        \/ DestroyTransfer(t)
        \/ DestroyWrite(t)
        \/ Transition(t)

SpecConc == InitConc /\ [][NextConc]_vars

\* C28: destroy is atomic with respect to concurrent pause and resume: the
\* state destroy read is still the machine's state when its transition
\* validates it, and once destroy has returned it has returned true, the
\* state is Shutdown and the power button has been written. The code does
\* not keep this: the state is read and validated under two separate locks.
C28_DestroyAtomic ==
    /\ threads[1].pc = "notify" => threads[1].vmstate = <<vm_state>>
    /\ threads[1].pc = "returned" =>
          /\ threads[1].ret = <<TRUE>>
          /\ vm_state = "Shutdown"
          /\ power_button = 1

\* ------------------------------------------------ SCSI: concurrent workers

\* Two queue workers, each about to build and run a REPORT_LUNS request for
\* a device of the bus; every mutex is free.
InitLock ==
    /\ Idle_locks
    /\ devices \in Buses
    /\ dev_iter \in IterOrders(DOMAIN devices)
    /\ workers \in [1..2 -> [dev : DOMAIN devices, xfer : {8, 16}, pc : {"new"},
                             k : {0}, outbuf : {<<>>}, ret : {<<>>}]]
    /\ locks = [bus |-> 0, dev |-> [key \in DOMAIN devices |-> 0]]

\* ScsiRequest::new run by worker w: the bus mutex is taken for the parsing
\* of the CDB and released.
NewLocked(w) ==
    /\ workers[w].pc = "new"
    /\ locks.bus = 0
    /\ workers' = [workers EXCEPT ![w].pc = "emulate"]
    /\ UNCHANGED <<locks, frame_locks>>

\* scsi_command_emulate_report_luns, dev.lock(): the worker takes its
\* device's mutex; a transfer length below 16 bails, which drops the guard.
LockDev(w) ==
    /\ workers[w].pc = "emulate"
    /\ locks.dev[workers[w].dev] = 0
    /\ IF workers[w].xfer < 16
       THEN /\ workers' = [workers EXCEPT ![w].pc = "done", ![w].ret = <<Err>>]
            /\ UNCHANGED locks
       ELSE /\ workers' = [workers EXCEPT ![w].pc = "bus", ![w].outbuf = Zeros(8)]
            /\ locks' = [locks EXCEPT !.dev[workers[w].dev] = w]
    /\ UNCHANGED frame_locks

\* scsi_command_emulate_report_luns, scsi_bus.lock(): with its device's
\* mutex held the worker takes the bus mutex, then drops the device's.
LockBus(w) ==
    /\ workers[w].pc = "bus"
    /\ locks.bus = 0
    /\ locks' = [locks EXCEPT !.bus = w, !.dev[workers[w].dev] = 0]
    /\ workers' = [workers EXCEPT ![w].pc = "iter", ![w].k = 1]
    /\ UNCHANGED frame_locks

\* One turn of the loop over the bus's devices: with the bus mutex held the
\* worker takes the device's mutex, appends its entry and drops the mutex.
VisitDevice(w) ==
    /\ workers[w].pc = "iter"
    /\ workers[w].k <= Len(dev_iter)
    /\ LET device == devices[dev_iter[workers[w].k]]
       IN  /\ locks.dev[dev_iter[workers[w].k]] = 0
           /\ workers' = [workers EXCEPT
                             ![w].k = @ + 1,
                             ![w].outbuf =
                                 IF device.target # devices[workers[w].dev].target THEN @
                                 ELSE @ \o lun_entry(device.lun)]
    /\ UNCHANGED <<locks, frame_locks>>

\* The end of scsi_command_emulate_report_luns: the length is written, the
\* buffer returned and the bus mutex dropped.
Finish(w) ==
    /\ workers[w].pc = "iter"
    /\ workers[w].k > Len(dev_iter)
    /\ LET len == Len(workers[w].outbuf) - 8
           outbuf == <<0, 0, (len \div 256) % 256, len % 256>>
                         \o SubSeq(workers[w].outbuf, 5, len + 8)
       IN  workers' = [workers EXCEPT ![w].pc = "done", ![w].ret = <<Ok(outbuf)>>]
    /\ locks' = [locks EXCEPT !.bus = 0]
    /\ UNCHANGED frame_locks

NextLock ==
    \E w \in 1..2 :
        \/ NewLocked(w)
        \/ LockDev(w)
        \/ LockBus(w)
        \/ VisitDevice(w)
        \/ Finish(w)

SpecLock == InitLock /\ [][NextLock]_vars

\* C29: two workers that run REPORT_LUNS against devices of one bus never
\* deadlock: while one of them has not completed, one of them can take its
\* next step. The code does not keep this: a worker takes a device's mutex
\* and then the bus's, another the bus's and then each device's.
C29_WorkersNeverDeadlock ==
    (\E w \in 1..2 : workers[w].pc # "done") => ENABLED NextLock

====
